---------------------------- MODULE Spec2Model ----------------------------
(***************************************************************************)
(* A model of rdark/pong: the Paddle, Ball and AIPlayer classes and the    *)
(* Game orchestration (src/src/pong/*.py).                                 *)
(*                                                                         *)
(* Numbers.  The program computes with Python ints and floats.  The model  *)
(* is fixed point: every length, position, velocity and speed is an        *)
(* integer number of 1/Scale pixels, so 5 px is 500 and the speed          *)
(* increment of 0.5 px is 50.  Divisions round to the nearest unit, as a   *)
(* float operation rounds to the nearest float.                            *)
(***************************************************************************)
EXTENDS Integers, Sequences, FiniteSets, TLC

\* Fixed-point resolution: units per pixel.
Scale == 10 * 10

PX(n) == n * Scale

Abs(a) == IF a < 0 THEN -a ELSE a

Sign(a) == IF a < 0 THEN -1 ELSE IF a > 0 THEN 1 ELSE 0

Min(a, b) == IF a < b THEN a ELSE b

\* a / b rounded to the nearest integer (b > 0), halves away from zero.
RoundDiv(a, b) == IF a >= 0 THEN (2 * a + b) \div (2 * b)
                  ELSE -((2 * (-a) + b) \div (2 * b))

\* int(v): truncation toward zero to a whole pixel, as pygame.Rect converts
\* a float coordinate.
Trunc(v) == IF v >= 0 THEN (v \div Scale) * Scale
            ELSE -(((-v) \div Scale) * Scale)

RECURSIVE SqrtSearch(_, _, _)
SqrtSearch(n, lo, hi) ==
    IF lo >= hi THEN lo
    ELSE LET mid == (lo + hi + 1) \div 2
         IN  IF mid * mid <= n THEN SqrtSearch(n, mid, hi)
             ELSE SqrtSearch(n, lo, mid - 1)

\* floor(sqrt(n)) for 0 <= n < 2^30
Isqrt(n) == SqrtSearch(n, 0, 32767)

(***************************************************************************)
(* constants.py                                                            *)
(***************************************************************************)
WINDOW_WIDTH == PX(800)
WINDOW_HEIGHT == PX(600)
PADDLE_WIDTH == PX(10)
PADDLE_HEIGHT == PX(100)
PADDLE_SPEED == PX(5)
PADDLE_OFFSET == PX(50)
BALL_SIZE == PX(10)
BALL_INITIAL_SPEED == PX(5)
BALL_MAX_SPEED == PX(10)
BALL_SPEED_INCREMENT == Scale \div 2
WINNING_SCORE == 10
\* ANGLE_FACTOR = 0.05 is the fraction ANGLE_FACTOR_NUM / ANGLE_FACTOR_DEN.
ANGLE_FACTOR_NUM == 5
ANGLE_FACTOR_DEN == 100
AI_SPEED == PX(4)
AI_REACTION_ZONE == PX(30)
AI_AGGRESSIVE_OFFSET == PX(80)
AI_BALL_REACTIVE_FORWARD_OFFSET == PX(100)
AI_BALL_REACTIVE_BACK_OFFSET == PX(150)
DOUBLES_PADDLE_HEIGHT == PX(80)
DOUBLES_PADDLE_OFFSET_X == PX(60)
DOUBLES_PADDLE_SPACING_Y == PX(100)

\* x // n on a pixel quantity that is a whole number of pixels
FloorDivPx(v, n) == ((v \div Scale) \div n) * Scale

(***************************************************************************)
(* paddle.py                                                               *)
(***************************************************************************)
\* Paddle.__init__ with the default speed; max_x = None is WINDOW_WIDTH.
Paddle(x, y, min_x, max_x) ==
    [x |-> x, y |-> y, width |-> PADDLE_WIDTH, height |-> PADDLE_HEIGHT,
     speed |-> PADDLE_SPEED, velocity_y |-> 0, velocity_x |-> 0,
     min_x |-> min_x, max_x |-> max_x]

center_y(p) == p.y + p.height \div 2

center_x(p) == p.x + p.width \div 2

move_up(p) == [p EXCEPT !.velocity_y = -p.speed]

move_down(p) == [p EXCEPT !.velocity_y = p.speed]

move_left(p) == [p EXCEPT !.velocity_x = -p.speed]

move_right(p) == [p EXCEPT !.velocity_x = p.speed]

stop_y(p) == [p EXCEPT !.velocity_y = 0]

stop_x(p) == [p EXCEPT !.velocity_x = 0]

stop(p) == [p EXCEPT !.velocity_y = 0, !.velocity_x = 0]

\* The y clamp of Paddle.update, applied to the moved y.
ClampY(p, y) ==
    IF y < 0 THEN 0
    ELSE IF y + p.height > WINDOW_HEIGHT THEN WINDOW_HEIGHT - p.height
    ELSE y

\* A clamp that forgets the far edge.
ClampXNoUpper(p, x) == IF x < p.min_x THEN p.min_x ELSE x

\* The x clamp of Paddle.update, applied to the moved x.
ClampX(p, x) ==
    IF x < p.min_x THEN p.min_x
    ELSE IF x + p.width > p.max_x THEN p.max_x - p.width
    ELSE x

\* An update whose clamp also stops the paddle on the clamped axis.
PaddleUpdateStopping(p) ==
    [p EXCEPT !.y = ClampY(p, p.y + p.velocity_y),
              !.x = ClampX(p, p.x + p.velocity_x),
              !.velocity_y = IF ClampY(p, p.y + p.velocity_y) = p.y + p.velocity_y
                             THEN @ ELSE 0,
              !.velocity_x = IF ClampX(p, p.x + p.velocity_x) = p.x + p.velocity_x
                             THEN @ ELSE 0]

\* Paddle.update
PaddleUpdate(p) ==
    [p EXCEPT !.y = ClampY(p, p.y + p.velocity_y),
              !.x = ClampX(p, p.x + p.velocity_x)]

\* A reset that moves the paddle but leaves it its velocity.
PaddleResetMoving(p, x, y) == [p EXCEPT !.x = x, !.y = y]

\* Paddle.reset
PaddleReset(p, x, y) ==
    [p EXCEPT !.x = x, !.y = y, !.velocity_y = 0, !.velocity_x = 0]

(***************************************************************************)
(* ball.py                                                                 *)
(***************************************************************************)
\* Denominator of the (cos, sin) pairs below.
TrigDen == 10 * Scale

\* The launch angles the model draws for random.uniform(-pi/4, pi/4), each as
\* <<cos, sin>> in 1/TrigDen: 0 and +-atan(3/4).
LaunchAngles == {<<1000, 0>>, <<800, 600>>, <<800, -600>>}

\* random.choice([-1, 1])
LaunchDirections == {-1, 1}

\* BALL_SIZE // 2
HalfSize(b) == FloorDivPx(b.size, 2)

\* Ball.reset_velocity with the random draws angle = a and direction = d
reset_velocity(b, a, d) ==
    [b EXCEPT !.speed = BALL_INITIAL_SPEED,
              !.vx = d * RoundDiv(BALL_INITIAL_SPEED * a[1], TrigDen),
              !.vy = RoundDiv(BALL_INITIAL_SPEED * a[2], TrigDen)]

\* Ball.__init__ with the random draws a, d
Ball(x, y, a, d) ==
    reset_velocity([x |-> x, y |-> y, size |-> BALL_SIZE,
                    speed |-> BALL_INITIAL_SPEED, vx |-> 0, vy |-> 0], a, d)

\* Ball.reset
BallReset(b, x, y, a, d) == reset_velocity([b EXCEPT !.x = x, !.y = y], a, d)

\* Ball.rect: pygame.Rect truncates the float corner to whole pixels.
BallRect(b) ==
    [x |-> Trunc(b.x - HalfSize(b)), y |-> Trunc(b.y - HalfSize(b)),
     w |-> b.size, h |-> b.size]

\* Paddle.rect
PaddleRect(p) == [x |-> Trunc(p.x), y |-> Trunc(p.y), w |-> p.width, h |-> p.height]

\* pygame.Rect.colliderect: strict overlap, touching edges do not collide
colliderect(A, B) ==
    /\ A.x < B.x + B.w
    /\ A.y < B.y + B.h
    /\ A.x + A.w > B.x
    /\ A.y + A.h > B.y

\* Which wall the moved ball (at y) bounces off in Ball.update.
Bounce(b, y) ==
    IF y - HalfSize(b) <= 0 THEN "top"
    ELSE IF y + HalfSize(b) >= WINDOW_HEIGHT THEN "bottom"
    ELSE "none"

\* An update that negates vy at a wall but leaves the ball where it moved.
BallUpdateNoClamp(b) ==
    LET y1 == b.y + b.vy
    IN  [b EXCEPT !.x = b.x + b.vx, !.y = y1,
                  !.vy = IF Bounce(b, y1) = "none" THEN b.vy ELSE -b.vy]

\* Ball.update
BallUpdate(b) ==
    LET x1 == b.x + b.vx
        y1 == b.y + b.vy
        w  == Bounce(b, y1)
    IN  IF w = "top"
        THEN [b EXCEPT !.x = x1, !.y = HalfSize(b), !.vy = -b.vy]
        ELSE IF w = "bottom"
        THEN [b EXCEPT !.x = x1, !.y = WINDOW_HEIGHT - HalfSize(b), !.vy = -b.vy]
        ELSE [b EXCEPT !.x = x1, !.y = y1]

\* hit_from_left = ball_center_x < paddle_center_x
hit_from_left(b, p) == b.x < center_x(p)

\* An acceptance test without the anti-stick rule.
AcceptsNoAntiStick(b, p) == TRUE

\* Neither anti-stick return of check_paddle_collision is taken.
Accepts(b, p) ==
    /\ ~(hit_from_left(b, p) /\ b.vx < 0)
    /\ ~(~hit_from_left(b, p) /\ b.vx > 0)

\* relative_hit * speed * ANGLE_FACTOR * 10, where
\* relative_hit = (ball.y - paddle.center_y) / (paddle.height / 2)
Steer(b, p) ==
    RoundDiv((b.y - center_y(p)) * b.speed * ANGLE_FACTOR_NUM * 10,
             ANGLE_FACTOR_DEN * (p.height \div 2))

\* A speed step without the cap.
NewSpeedNoCap(speed) == speed + BALL_SPEED_INCREMENT

\* new_speed = min(speed + BALL_SPEED_INCREMENT, BALL_MAX_SPEED)
NewSpeed(speed) == Min(speed + BALL_SPEED_INCREMENT, BALL_MAX_SPEED)

\* 16 * sqrt(vx^2 + vy^2), the hypotenuse behind cos/sin(atan2(vy, |vx|))
Hyp16(vx, vy) == Isqrt(256 * (vx * vx + vy * vy))

\* <<vx, vy>> of magnitude speed along the angle atan2(vy, |vx|) with the
\* horizontal sign of vx (direction = 1 if vx > 0 else -1).
Rescale(vx, vy, speed) ==
    LET h == Hyp16(vx, vy)
        direction == IF vx > 0 THEN 1 ELSE -1
    IN  IF h = 0 THEN <<direction * speed, 0>>
        ELSE <<direction * RoundDiv(speed * Abs(vx) * 16, h),
               Sign(vy) * RoundDiv(speed * Abs(vy) * 16, h)>>

\* A collision that keeps the horizontal direction.
VelocityAfterHitNoFlip(b, p) ==
    LET vx1 == b.vx
        vy1 == b.vy + Steer(b, p)
        ns  == NewSpeed(b.speed)
    IN  IF ns > b.speed THEN Rescale(vx1, vy1, ns) ELSE <<vx1, vy1>>

\* The velocity an accepted collision leaves: vx negated, vy steered, and
\* both re-derived from the new speed when the speed grew.
VelocityAfterHit(b, p) ==
    LET vx1 == -b.vx
        vy1 == b.vy + Steer(b, p)
        ns  == NewSpeed(b.speed)
    IN  IF ns > b.speed THEN Rescale(vx1, vy1, ns) ELSE <<vx1, vy1>>

\* A collision that leaves the ball where it was struck.
XAfterHitInPlace(b, p) == b.x

\* The x an accepted collision leaves: just outside the struck face.
XAfterHit(b, p) ==
    IF hit_from_left(b, p) THEN p.x - HalfSize(b) - PX(1)
    ELSE p.x + p.width + HalfSize(b) + PX(1)

\* Ball.check_paddle_collision: the ball it leaves, the value it returns and
\* the return statement taken ("miss": the boxes do not intersect, "stick":
\* one of the two anti-stick returns, "hit": the final return True).
check_paddle_collision(b, p) ==
    IF ~colliderect(BallRect(b), PaddleRect(p))
    THEN [ball |-> b, ret |-> FALSE, why |-> "miss"]
    ELSE IF ~Accepts(b, p)
    THEN [ball |-> b, ret |-> FALSE, why |-> "stick"]
    ELSE LET v == VelocityAfterHit(b, p)
         IN  [ball |-> [b EXCEPT !.vx = v[1], !.vy = v[2],
                                 !.speed = NewSpeed(b.speed),
                                 !.x = XAfterHit(b, p)],
              ret |-> TRUE, why |-> "hit"]

\* An out test that counts a ball touching the edge as out.
is_out_left_touching(b) == b.x + HalfSize(b) <= 0

\* Ball.is_out_left
is_out_left(b) == b.x + HalfSize(b) < 0

\* Ball.is_out_right
is_out_right(b) == b.x - HalfSize(b) > WINDOW_WIDTH

(***************************************************************************)
(* ai.py                                                                   *)
(***************************************************************************)
AIStrategy == {"defensive", "balanced", "aggressive", "ball_reactive"}

\* zone_center_y = None
NoZoneCenter == 0 - 1

\* zone_height = 150
ZoneHeight == PX(150)

\* Difficulty parameters with the tiers of easy and hard exchanged.
set_difficulty_params_swapped(ai) ==
    IF ai.difficulty = "hard"
    THEN [ai EXCEPT !.speed = AI_SPEED - PX(1),
                    !.reaction_zone = AI_REACTION_ZONE + PX(20)]
    ELSE IF ai.difficulty = "easy"
    THEN [ai EXCEPT !.speed = AI_SPEED + PX(1),
                    !.reaction_zone = AI_REACTION_ZONE - PX(15)]
    ELSE [ai EXCEPT !.speed = AI_SPEED, !.reaction_zone = AI_REACTION_ZONE]

\* AIPlayer._set_difficulty_params
set_difficulty_params(ai) ==
    IF ai.difficulty = "easy"
    THEN [ai EXCEPT !.speed = AI_SPEED - PX(1),
                    !.reaction_zone = AI_REACTION_ZONE + PX(20)]
    ELSE IF ai.difficulty = "hard"
    THEN [ai EXCEPT !.speed = AI_SPEED + PX(1),
                    !.reaction_zone = AI_REACTION_ZONE - PX(15)]
    ELSE [ai EXCEPT !.speed = AI_SPEED, !.reaction_zone = AI_REACTION_ZONE]

\* AIPlayer.__init__; paddle is the name of the paddle object it controls,
\* zone = None is "None".
AIPlayer(paddle, difficulty, doubles_mode, zone, zone_center_y) ==
    set_difficulty_params(
        [paddle |-> paddle, difficulty |-> difficulty,
         doubles_mode |-> doubles_mode, zone |-> zone,
         zone_center_y |-> zone_center_y, strategy |-> "balanced",
         speed |-> 0, reaction_zone |-> 0])

\* AIPlayer.randomize_strategy with the random draw s
randomize_strategy(ai, s) == [ai EXCEPT !.strategy = s]

\* A target whose side test is turned round: the paddle right of the
\* centreline is given the targets of the left half.
calculate_target_x_mirrored(ai, p, b) ==
    LET on_right_side == p.x <= FloorDivPx(WINDOW_WIDTH, 2)
    IN  CASE ai.strategy = "defensive" ->
                IF on_right_side
                THEN WINDOW_WIDTH - DOUBLES_PADDLE_OFFSET_X - PADDLE_WIDTH
                ELSE DOUBLES_PADDLE_OFFSET_X
          [] ai.strategy = "balanced" ->
                IF on_right_side
                THEN FloorDivPx(FloorDivPx(WINDOW_WIDTH, 2) + WINDOW_WIDTH, 2)
                ELSE FloorDivPx(WINDOW_WIDTH, 4)
          [] ai.strategy = "aggressive" ->
                IF on_right_side
                THEN FloorDivPx(WINDOW_WIDTH, 2) + AI_AGGRESSIVE_OFFSET
                ELSE FloorDivPx(WINDOW_WIDTH, 2) - AI_AGGRESSIVE_OFFSET
          [] ai.strategy = "ball_reactive" ->
                IF on_right_side
                THEN IF b.vx < 0
                     THEN FloorDivPx(WINDOW_WIDTH, 2) + AI_BALL_REACTIVE_FORWARD_OFFSET
                     ELSE WINDOW_WIDTH - AI_BALL_REACTIVE_BACK_OFFSET
                ELSE IF b.vx > 0
                     THEN FloorDivPx(WINDOW_WIDTH, 2) - AI_BALL_REACTIVE_FORWARD_OFFSET
                     ELSE AI_BALL_REACTIVE_BACK_OFFSET
          [] OTHER -> b.x

\* AIPlayer._calculate_target_x
calculate_target_x(ai, p, b) ==
    LET on_right_side == p.x > FloorDivPx(WINDOW_WIDTH, 2)
    IN  CASE ai.strategy = "defensive" ->
                IF on_right_side
                THEN WINDOW_WIDTH - DOUBLES_PADDLE_OFFSET_X - PADDLE_WIDTH
                ELSE DOUBLES_PADDLE_OFFSET_X
          [] ai.strategy = "balanced" ->
                IF on_right_side
                THEN FloorDivPx(FloorDivPx(WINDOW_WIDTH, 2) + WINDOW_WIDTH, 2)
                ELSE FloorDivPx(WINDOW_WIDTH, 4)
          [] ai.strategy = "aggressive" ->
                IF on_right_side
                THEN FloorDivPx(WINDOW_WIDTH, 2) + AI_AGGRESSIVE_OFFSET
                ELSE FloorDivPx(WINDOW_WIDTH, 2) - AI_AGGRESSIVE_OFFSET
          [] ai.strategy = "ball_reactive" ->
                IF on_right_side
                THEN IF b.vx < 0
                     THEN FloorDivPx(WINDOW_WIDTH, 2) + AI_BALL_REACTIVE_FORWARD_OFFSET
                     ELSE WINDOW_WIDTH - AI_BALL_REACTIVE_BACK_OFFSET
                ELSE IF b.vx > 0
                     THEN FloorDivPx(WINDOW_WIDTH, 2) - AI_BALL_REACTIVE_FORWARD_OFFSET
                     ELSE AI_BALL_REACTIVE_BACK_OFFSET
          [] OTHER -> b.x

\* A y target whose zone test adds a quarter of the zone height.
TargetYQuarterHeight(ai, b) ==
    LET in_zone == IF ai.zone = "top"
                   THEN b.y < ai.zone_center_y + ZoneHeight \div 4
                   ELSE b.y > ai.zone_center_y - ZoneHeight \div 4
    IN  IF in_zone THEN b.y ELSE ai.zone_center_y

\* A y target whose zone test adds the whole zone height.
TargetYWholeHeight(ai, b) ==
    LET in_zone == IF ai.zone = "top"
                   THEN b.y < ai.zone_center_y + ZoneHeight
                   ELSE b.y > ai.zone_center_y - ZoneHeight
    IN  IF in_zone THEN b.y ELSE ai.zone_center_y

\* The y target of the zone branch of AIPlayer.update.
TargetY(ai, b) ==
    LET in_zone == IF ai.zone = "top"
                   THEN b.y < ai.zone_center_y + ZoneHeight \div 2
                   ELSE b.y > ai.zone_center_y - ZoneHeight \div 2
    IN  IF in_zone THEN b.y ELSE ai.zone_center_y

\* The y part of the 2D branch of AIPlayer.update.
ChaseY(ai, p, b) ==
    LET diff_y == IF ai.zone # "None" /\ ai.zone_center_y # NoZoneCenter
                  THEN TargetY(ai, b) - center_y(p)
                  ELSE b.y - center_y(p)
    IN  IF Abs(diff_y) < ai.reaction_zone THEN stop_y(p)
        ELSE IF diff_y < 0 THEN [p EXCEPT !.velocity_y = -ai.speed]
        ELSE [p EXCEPT !.velocity_y = ai.speed]

\* The x part of the 2D branch of AIPlayer.update.
ChaseX(ai, p, b) ==
    LET diff_x == calculate_target_x(ai, p, b) - center_x(p)
    IN  IF Abs(diff_x) < ai.reaction_zone THEN stop_x(p)
        ELSE IF diff_x < 0 THEN [p EXCEPT !.velocity_x = -ai.speed]
        ELSE [p EXCEPT !.velocity_x = ai.speed]

\* An AIPlayer.update whose single-axis dead zone includes its edge.
AIUpdateClosedZone(ai, p, b) ==
    IF ai.doubles_mode THEN ChaseX(ai, ChaseY(ai, p, b), b)
    ELSE LET diff == b.y - center_y(p)
         IN  IF Abs(diff) <= ai.reaction_zone THEN stop(p)
             ELSE IF diff < 0 THEN [p EXCEPT !.velocity_y = -ai.speed]
             ELSE [p EXCEPT !.velocity_y = ai.speed]

\* An AIPlayer.update whose single-axis branch has no dead zone.
AIUpdateNoDeadZone(ai, p, b) ==
    IF ai.doubles_mode THEN ChaseX(ai, ChaseY(ai, p, b), b)
    ELSE LET diff == b.y - center_y(p)
         IN  IF diff < 0 THEN [p EXCEPT !.velocity_y = -ai.speed]
             ELSE [p EXCEPT !.velocity_y = ai.speed]

\* AIPlayer.update: the paddle p of controller ai after it has looked at
\* ball b.
AIUpdate(ai, p, b) ==
    IF ai.doubles_mode THEN ChaseX(ai, ChaseY(ai, p, b), b)
    ELSE LET diff == b.y - center_y(p)
         IN  IF Abs(diff) < ai.reaction_zone THEN stop(p)
             ELSE IF diff < 0 THEN [p EXCEPT !.velocity_y = -ai.speed]
             ELSE [p EXCEPT !.velocity_y = ai.speed]

(***************************************************************************)
(* game.py: construction                                                   *)
(***************************************************************************)
VARIABLES state, mode, formation, running, crashed, score_left, score_right,
          paddles, ais, ball, last, hits

vars == <<state, mode, formation, running, crashed, score_left, score_right,
          paddles, ais, ball, last, hits>>

GameModes == {"1P", "2P", "Doubles"}

\* center_y = WINDOW_HEIGHT // 2
CourtCenterY == FloorDivPx(WINDOW_HEIGHT, 2)

\* WINDOW_WIDTH // 2
CourtCenterX == FloorDivPx(WINDOW_WIDTH, 2)

\* paddle_y = (WINDOW_HEIGHT - PADDLE_HEIGHT) // 2
StandardPaddleY == FloorDivPx(WINDOW_HEIGHT - PADDLE_HEIGHT, 2)

\* The starting <<x, y>> of each paddle object, as _init_game_objects and
\* _reset_positions both place it.
StartPos(r) ==
    CASE r = "left" -> <<PADDLE_OFFSET, StandardPaddleY>>
      [] r = "right" -> <<WINDOW_WIDTH - PADDLE_OFFSET - PADDLE_WIDTH, StandardPaddleY>>
      [] r = "left_top" ->
            <<DOUBLES_PADDLE_OFFSET_X, CourtCenterY - DOUBLES_PADDLE_SPACING_Y>>
      [] r = "left_bottom" ->
            <<DOUBLES_PADDLE_OFFSET_X,
              CourtCenterY + DOUBLES_PADDLE_SPACING_Y - DOUBLES_PADDLE_HEIGHT>>
      [] r = "right_top" ->
            <<WINDOW_WIDTH - DOUBLES_PADDLE_OFFSET_X - PADDLE_WIDTH,
              CourtCenterY - DOUBLES_PADDLE_SPACING_Y>>
      [] r = "right_bottom" ->
            <<WINDOW_WIDTH - DOUBLES_PADDLE_OFFSET_X - PADDLE_WIDTH,
              CourtCenterY + DOUBLES_PADDLE_SPACING_Y - DOUBLES_PADDLE_HEIGHT>>

\* The paddle objects _init_game_objects builds for DOUBLES.
DoublesPaddles ==
    [r \in {"left_top", "left_bottom", "right_top", "right_bottom"} |->
        [Paddle(StartPos(r)[1], StartPos(r)[2],
                IF r \in {"left_top", "left_bottom"} THEN 0 ELSE CourtCenterX,
                IF r \in {"left_top", "left_bottom"} THEN CourtCenterX
                ELSE WINDOW_WIDTH)
         EXCEPT !.height = DOUBLES_PADDLE_HEIGHT]]

\* The paddle objects _init_game_objects builds for 1P and 2P.
StandardPaddles ==
    [r \in {"left", "right"} |->
        Paddle(StartPos(r)[1], StartPos(r)[2], 0, WINDOW_WIDTH)]

FormationOf(m) == IF m = "Doubles" THEN "doubles" ELSE "standard"

InitPaddles(m) == IF m = "Doubles" THEN DoublesPaddles ELSE StandardPaddles

(***************************************************************************)
(* The Paddle class on its own: one paddle object as the game builds it,   *)
(* under any sequence of velocity settings and updates.  In mode m the     *)
(* object r is driven by the keyboard or by an AI controller, as in        *)
(* Game.handle_input and AIPlayer.update.                                  *)
(***************************************************************************)
AIDriven(m, r) ==
    \/ m = "1P" /\ r = "right"
    \/ m = "Doubles" /\ r \in {"right_top", "right_bottom"}

PaddleSubjects ==
    {<<"2P", "left">>, <<"1P", "right">>,
     <<"Doubles", "left_top">>, <<"Doubles", "left_bottom">>,
     <<"Doubles", "right_top">>, <<"Doubles", "right_bottom">>}

\* A fixed ball for the specifications that do not move it.
RestBall == Ball(CourtCenterX, CourtCenterY, <<1000, 0>>, 1)

InitPaddle ==
    /\ \E s \in PaddleSubjects :
          /\ mode = s[1]
          /\ paddles = (s[2] :> InitPaddles(s[1])[s[2]])
    /\ formation = FormationOf(mode)
    /\ state = "menu"
    /\ running = TRUE
    /\ crashed = FALSE
    /\ score_left = 0
    /\ score_right = 0
    /\ ais = <<>>
    /\ ball = RestBall
    /\ last = [op |-> "init", ret |-> FALSE, why |-> "none", k |-> 0]
    /\ hits = 0

PaddleFrame ==
    UNCHANGED <<state, mode, formation, running, crashed, score_left,
                score_right, ais, ball, last, hits>>

KeyOp(op, p) ==
    CASE op = "move_up" -> move_up(p)
      [] op = "move_down" -> move_down(p)
      [] op = "move_left" -> move_left(p)
      [] op = "move_right" -> move_right(p)
      [] op = "stop_y" -> stop_y(p)
      [] op = "stop_x" -> stop_x(p)
      [] op = "stop" -> stop(p)

KeyOps == {"move_up", "move_down", "move_left", "move_right",
           "stop_y", "stop_x", "stop"}

\* A velocity setting made through the Paddle methods (keyboard input).
PaddleKey ==
    /\ \E r \in DOMAIN paddles, op \in KeyOps :
          /\ ~AIDriven(mode, r)
          /\ paddles' = [paddles EXCEPT ![r] = KeyOp(op, paddles[r])]
    /\ PaddleFrame

\* The velocity writes of AIPlayer.update: velocity_y (and, in doubles mode,
\* velocity_x) set to -speed or +speed of the medium controller, or a stop.
AIWrites(m) ==
    IF m = "Doubles" THEN {"x-", "x+", "y-", "y+", "stop_x", "stop_y"}
    ELSE {"y-", "y+", "stop"}

PaddleAIWrite ==
    /\ \E r \in DOMAIN paddles, w \in AIWrites(mode) :
          /\ AIDriven(mode, r)
          /\ paddles' = [paddles EXCEPT ![r] =
                CASE w = "x-" -> [@ EXCEPT !.velocity_x = -AI_SPEED]
                  [] w = "x+" -> [@ EXCEPT !.velocity_x = AI_SPEED]
                  [] w = "y-" -> [@ EXCEPT !.velocity_y = -AI_SPEED]
                  [] w = "y+" -> [@ EXCEPT !.velocity_y = AI_SPEED]
                  [] w = "stop_x" -> stop_x(@)
                  [] w = "stop_y" -> stop_y(@)
                  [] w = "stop" -> stop(@)]
    /\ PaddleFrame

\* Paddle.update on the paddle.
PaddleStep ==
    /\ \E r \in DOMAIN paddles :
          paddles' = [paddles EXCEPT ![r] = PaddleUpdate(paddles[r])]
    /\ PaddleFrame

NextPaddle == PaddleKey \/ PaddleAIWrite \/ PaddleStep

SpecPaddle == InitPaddle /\ [][NextPaddle]_vars

(***************************************************************************)
(* C1: after any sequence of velocity settings and Paddle.update calls     *)
(* from its starting position, a paddle has 0 <= y <= WINDOW_HEIGHT -      *)
(* height and min_x <= x <= max_x - width; the doubles left team stays in  *)
(* x in [0, WINDOW_WIDTH/2 - width] and the right team in                  *)
(* [WINDOW_WIDTH/2, WINDOW_WIDTH - width].                                 *)
(***************************************************************************)
PaddleInBounds(p) ==
    /\ 0 <= p.y /\ p.y <= WINDOW_HEIGHT - p.height
    /\ p.min_x <= p.x /\ p.x <= p.max_x - p.width

C1_PaddleStaysInBounds ==
    \A r \in DOMAIN paddles :
       /\ PaddleInBounds(paddles[r])
       /\ r \in {"left_top", "left_bottom"} =>
             0 <= paddles[r].x /\ paddles[r].x <= PX(400) - paddles[r].width
       /\ r \in {"right_top", "right_bottom"} =>
             PX(400) <= paddles[r].x /\ paddles[r].x <= PX(800) - paddles[r].width

\* The right-top paddle held in the bottom corner at the centreline while
\* still driven left and down; x = min_x is not a whole number of steps from
\* the start, so an update has clamped.
C1_Witness ==
    /\ "right_top" \in DOMAIN paddles
    /\ paddles["right_top"].x = paddles["right_top"].min_x
    /\ paddles["right_top"].velocity_x < 0
    /\ paddles["right_top"].y = WINDOW_HEIGHT - paddles["right_top"].height
    /\ paddles["right_top"].velocity_y > 0

\* The order in which Game.update probes the paddles of a formation.
ProbeOrder(f) ==
    IF f = "doubles"
    THEN <<"left_top", "left_bottom", "right_top", "right_bottom">>
    ELSE <<"left", "right">>

(***************************************************************************)
(* The Ball class on its own: a ball launched from the court centre and    *)
(* driven as Game.update drives it (Ball.update, then one                  *)
(* check_paddle_collision per paddle in the probe order), against paddles  *)
(* that stand still at a position drawn at the start, and relaunched by    *)
(* Ball.reset.  last.k is the index of the paddle just probed.             *)
(***************************************************************************)
\* Accepted collisions explored per rally.
MaxHits == 14

\* Heights (px) at which the two net-side doubles paddles may stand.
NearYs == {200, 220, 235, 245, 275, 285, 315, 320}

\* Heights (px) at which the standard paddles may stand.
FarYs == {0, 150, 250, 350, 500}

\* Doubles paddles: the top pair near the net (left at x = 380, right at
\* x = 420), the bottom pair at its starting position.
NearPlacement(ly, ry) ==
    [DoublesPaddles EXCEPT !["left_top"].x = PX(380), !["left_top"].y = PX(ly),
                           !["right_top"].x = PX(420), !["right_top"].y = PX(ry)]

\* Standard paddles on their columns.
FarPlacement(ly, ry) ==
    [StandardPaddles EXCEPT !["left"].y = PX(ly), !["right"].y = PX(ry)]

InitBall ==
    /\ \E a \in LaunchAngles, d \in LaunchDirections :
          ball = Ball(CourtCenterX, CourtCenterY, a, d)
    /\ \/ /\ formation = "doubles"
          /\ mode = "Doubles"
          /\ \E ly \in NearYs, ry \in NearYs : paddles = NearPlacement(ly, ry)
       \/ /\ formation = "standard"
          /\ mode = "2P"
          /\ \E ly \in FarYs, ry \in FarYs : paddles = FarPlacement(ly, ry)
    /\ state = "menu"
    /\ running = TRUE
    /\ crashed = FALSE
    /\ score_left = 0
    /\ score_right = 0
    /\ ais = <<>>
    /\ last = [op |-> "init", ret |-> FALSE, why |-> "none", k |-> 0]
    /\ hits = 0

BallFrame ==
    UNCHANGED <<state, mode, formation, running, crashed, score_left,
                score_right, paddles, ais>>

\* Ball.update, while the ball is in play.
BallStep ==
    /\ \/ last.op \in {"init", "reset"}
       \/ last.op = "collide" /\ last.k = Len(ProbeOrder(formation))
    /\ ~is_out_left(ball) /\ ~is_out_right(ball)
    /\ hits < MaxHits
    /\ ball' = BallUpdate(ball)
    /\ last' = [op |-> "update", ret |-> FALSE,
                why |-> Bounce(ball, ball.y + ball.vy), k |-> 0]
    /\ UNCHANGED hits
    /\ BallFrame

\* Ball.check_paddle_collision against the next paddle of the probe order.
BallProbe ==
    /\ \/ last.op = "update"
       \/ last.op = "collide" /\ last.k < Len(ProbeOrder(formation))
    /\ \E k \in {last.k + 1} :
          \E r \in {check_paddle_collision(ball, paddles[ProbeOrder(formation)[k]])} :
             /\ ball' = r.ball
             /\ last' = [op |-> "collide", ret |-> r.ret, why |-> r.why, k |-> k]
             /\ hits' = IF r.ret THEN hits + 1 ELSE hits
    /\ BallFrame

\* Ball.reset to the court centre, as Game._reset_positions calls it.
BallRelaunch ==
    /\ \E a \in LaunchAngles, d \in LaunchDirections :
          ball' = BallReset(ball, CourtCenterX, CourtCenterY, a, d)
    /\ last' = [op |-> "reset", ret |-> FALSE, why |-> "none", k |-> 0]
    /\ hits' = 0
    /\ BallFrame

NextBall == BallStep \/ BallProbe \/ BallRelaunch

SpecBall == InitBall /\ [][NextBall]_vars

\* The paddle probed by the collide step that leads to the next state.
ProbedNext == paddles[ProbeOrder(formation)[last'.k]]

(***************************************************************************)
(* C2: the ball speed always lies in [BALL_INITIAL_SPEED, BALL_MAX_SPEED]; *)
(* an accepted collision raises it by BALL_SPEED_INCREMENT up to           *)
(* BALL_MAX_SPEED, a rejected or missed collision and an update leave it   *)
(* unchanged, and a reset sets it back to BALL_INITIAL_SPEED.              *)
(***************************************************************************)
C2_SpeedLaw ==
    [][/\ BALL_INITIAL_SPEED <= ball.speed /\ ball.speed <= BALL_MAX_SPEED
       /\ BALL_INITIAL_SPEED <= ball'.speed /\ ball'.speed <= BALL_MAX_SPEED
       /\ last'.op = "reset" => ball'.speed = BALL_INITIAL_SPEED
       /\ last'.op = "update" => ball'.speed = ball.speed
       /\ (last'.op = "collide" /\ ~last'.ret) => ball'.speed = ball.speed
       /\ (last'.op = "collide" /\ last'.ret) =>
             /\ ball'.speed >= ball.speed
             /\ ball'.speed = IF ball.speed + Scale \div 2 <= PX(10)
                              THEN ball.speed + Scale \div 2 ELSE PX(10)
      ]_vars

\* An accepted collision of a ball already at the maximum speed.
C2_Witness ==
    /\ last.op = "collide" /\ last.ret
    /\ ball.speed = BALL_MAX_SPEED
    /\ hits >= 11

(***************************************************************************)
(* C3: after every accepted collision the magnitude of (vx, vy) equals the *)
(* ball's speed (within the tolerance of 0.1 px the tests use), also when  *)
(* the speed was already BALL_MAX_SPEED.                                   *)
(***************************************************************************)
\* 0.1 px
MagnitudeTolerance == Scale \div 10

MagnitudeIsSpeed(b) ==
    LET m2 == b.vx * b.vx + b.vy * b.vy
    IN  /\ (b.speed - MagnitudeTolerance) * (b.speed - MagnitudeTolerance) <= m2
        /\ m2 <= (b.speed + MagnitudeTolerance) * (b.speed + MagnitudeTolerance)

C3_MagnitudeIsSpeedAfterHit ==
    (last.op = "collide" /\ last.ret) => MagnitudeIsSpeed(ball)

\* The same for the collisions that raised the speed (a reference point for
\* C3: the rescale branch does restore the magnitude).
C3_MagnitudeIsSpeedAfterRescale ==
    (last.op = "collide" /\ last.ret /\ hits <= 10) => MagnitudeIsSpeed(ball)

(***************************************************************************)
(* C4: every accepted collision flips the sign of vx, whether or not the   *)
(* speed-rescale branch runs.                                              *)
(***************************************************************************)
C4_HitFlipsVx ==
    [][(last'.op = "collide" /\ last'.ret) =>
          /\ ball.vx < 0 => ball'.vx > 0
          /\ ball.vx > 0 => ball'.vx < 0
      ]_vars

\* An accepted collision without rescale (speed already at the maximum)
\* that sent a ball moving right.
C4_Witness ==
    /\ last.op = "collide" /\ last.ret
    /\ hits >= 12
    /\ ball.vx > 0
    /\ ball.vy # 0

(***************************************************************************)
(* C5: check_paddle_collision called with the ball overlapping the paddle  *)
(* but moving away from the face it nominally hit (centre x < paddle       *)
(* centre x and vx < 0, or centre x >= paddle centre x and vx > 0), or     *)
(* with boxes that do not intersect, returns False and leaves x, y, vx, vy *)
(* and speed unchanged.                                                    *)
(***************************************************************************)
C5_RejectedProbeChangesNothing ==
    [][last'.op = "collide" =>
          LET p == ProbedNext
              boxes == colliderect(BallRect(ball), PaddleRect(p))
              away == \/ ball.x < p.x + p.width \div 2 /\ ball.vx < 0
                      \/ ball.x >= p.x + p.width \div 2 /\ ball.vx > 0
          IN  (~boxes \/ away) => (~last'.ret /\ ball' = ball)
      ]_vars

\* A probe that found the ball inside the paddle's box, moving away.
C5_Witness == last.op = "collide" /\ last.why = "stick"

(***************************************************************************)
(* C6: Ball.update reflects off the top and bottom walls: when the moved   *)
(* box reaches or crosses y = 0 (resp. WINDOW_HEIGHT), y becomes exactly   *)
(* size/2 (resp. WINDOW_HEIGHT - size/2), vy is negated and vx unchanged;  *)
(* after every update y is in [size/2, WINDOW_HEIGHT - size/2]; and vy is  *)
(* never negated for a ball moving away from the wall it touches.          *)
(***************************************************************************)
C6_WallReflection ==
    [][last'.op = "update" =>
          LET y1 == ball.y + ball.vy
              half == BALL_SIZE \div 2
              top == y1 - half <= 0
              bottom == y1 + half >= WINDOW_HEIGHT
          IN  /\ top => /\ ball'.y = half
                        /\ ball'.vy = -ball.vy
                        /\ ~(ball.vy > 0)
              /\ bottom => /\ ball'.y = WINDOW_HEIGHT - half
                           /\ ball'.vy = -ball.vy
                           /\ ~(ball.vy < 0)
              /\ ~(top \/ bottom) => ball'.vy = ball.vy /\ ball'.y = y1
              /\ ball'.vx = ball.vx
              /\ ball'.vx * ball'.vx + ball'.vy * ball'.vy
                    = ball.vx * ball.vx + ball.vy * ball.vy
              /\ half <= ball'.y /\ ball'.y <= WINDOW_HEIGHT - half
      ]_vars

\* An update that bounced a ball, already hit by a paddle, off the bottom.
C6_Witness ==
    /\ last.op = "update" /\ last.why = "bottom"
    /\ hits > 0
    /\ ball.y = WINDOW_HEIGHT - BALL_SIZE \div 2
    /\ ball.vy < 0


(***************************************************************************)
(* game.py: the Game object.  formation tells which objects the last       *)
(* _init_game_objects built ("standard": paddle_left, paddle_right and ai, *)
(* the doubles attributes None; "doubles": the four doubles paddles, ai    *)
(* and ai_bottom, paddle_left and paddle_right aliases of the top pair).   *)
(* crashed records an AttributeError raised on an attribute that is None.  *)
(* last is the operation just performed; for an update it keeps the number *)
(* n of accepted collisions, the edge the ball left by (why) and the ball  *)
(* as the out-of-bounds check saw it (at) and the controllers on which    *)
(* randomize_strategy was called (drawn); k counts the calls made during   *)
(* play since the serve, up to InputWindow.                                *)
(***************************************************************************)
\* Calls on the Game object after a serve among which the operator acts
\* (keys pressed or released, menu keys, set_mode); after them the keys stay
\* as they are and only update is called until the next serve.
InputWindow == 1

\* Points explored per match when every mode is played.
MaxPoints == 1

\* Accepted collisions explored per rally of a match.
MaxRally == 3

\* Samples of keys held down.
KeySamples == {{}, {"w", "up"}, {"s", "down", "d"}}

\* The object behind self.paddle_left and self.paddle_right.
PaddleLeft(f) == IF f = "doubles" THEN "left_top" ELSE "left"

PaddleRight(f) == IF f = "doubles" THEN "right_top" ELSE "right"

\* The controllers _init_game_objects builds.
InitAIs(m) ==
    IF m = "Doubles"
    THEN [c \in {"ai", "ai_bottom"} |->
            IF c = "ai"
            THEN AIPlayer("right_top", "medium", TRUE, "top",
                          CourtCenterY - FloorDivPx(DOUBLES_PADDLE_SPACING_Y, 2))
            ELSE AIPlayer("right_bottom", "medium", TRUE, "bottom",
                          CourtCenterY + FloorDivPx(DOUBLES_PADDLE_SPACING_Y, 2))]
    ELSE [c \in {"ai"} |-> AIPlayer("right", "medium", FALSE, "None", NoZoneCenter)]

\* The DOUBLES branches reach for paddle_left_top, which is None.
Broken(m, f) == m = "Doubles" /\ f = "standard"

\* The paddles after Game._reset_positions.
reset_positions(m, f, ps) ==
    IF m = "Doubles"
    THEN [r \in DOMAIN ps |-> PaddleReset(ps[r], StartPos(r)[1], StartPos(r)[2])]
    ELSE [ps EXCEPT ![PaddleLeft(f)] =
                        PaddleReset(@, StartPos("left")[1], StartPos("left")[2]),
                    ![PaddleRight(f)] =
                        PaddleReset(@, StartPos("right")[1], StartPos("right")[2])]

\* One two-key axis of Game.handle_input.
HeldY(p, up, down, keys) ==
    IF up \in keys THEN move_up(p)
    ELSE IF down \in keys THEN move_down(p)
    ELSE stop_y(p)

HeldX(p, left, right, keys) ==
    IF left \in keys THEN move_left(p)
    ELSE IF right \in keys THEN move_right(p)
    ELSE stop_x(p)

\* The standard controls: up, down, else stop().
Held(p, up, down, keys) ==
    IF up \in keys THEN move_up(p)
    ELSE IF down \in keys THEN move_down(p)
    ELSE stop(p)

\* A handle_input whose arrow keys drive the right paddle in every standard
\* mode, 1P included.
handle_input_arrows_in_1p(m, f, ps, keys) ==
    IF m = "Doubles"
    THEN [ps EXCEPT
            !["left_top"] = HeldX(HeldY(@, "w", "s", keys), "a", "d", keys),
            !["left_bottom"] =
                HeldX(HeldY(@, "up", "down", keys), "left", "right", keys)]
    ELSE [ps EXCEPT ![PaddleLeft(f)] = Held(@, "w", "s", keys),
                    ![PaddleRight(f)] = Held(@, "up", "down", keys)]

\* The paddles after Game.handle_input(keys) while PLAYING.
handle_input(m, f, ps, keys) ==
    IF m = "Doubles"
    THEN [ps EXCEPT
            !["left_top"] = HeldX(HeldY(@, "w", "s", keys), "a", "d", keys),
            !["left_bottom"] =
                HeldX(HeldY(@, "up", "down", keys), "left", "right", keys)]
    ELSE IF m = "2P"
    THEN [ps EXCEPT ![PaddleLeft(f)] = Held(@, "w", "s", keys),
                    ![PaddleRight(f)] = Held(@, "up", "down", keys)]
    ELSE [ps EXCEPT ![PaddleLeft(f)] = Held(@, "w", "s", keys)]

\* The paddles Game.update integrates and probes, in probe order.
LiveOrder(m, f) ==
    IF m = "Doubles" THEN ProbeOrder("doubles")
    ELSE <<PaddleLeft(f), PaddleRight(f)>>

\* Paddle.update on every live paddle.
MovePaddles(m, f, ps) ==
    [r \in DOMAIN ps |->
        IF \E i \in 1..Len(LiveOrder(m, f)) : LiveOrder(m, f)[i] = r
        THEN PaddleUpdate(ps[r]) ELSE ps[r]]

\* The AI decisions of Game.update: every controller of DOUBLES, the one
\* controller of 1P, none in 2P.  Each looks at ball b and at its own paddle.
RunAIs(m, ps, as, b) ==
    IF m = "Doubles"
    THEN [r \in DOMAIN ps |->
            IF as["ai"].paddle = r THEN AIUpdate(as["ai"], ps[r], b)
            ELSE IF as["ai_bottom"].paddle = r
            THEN AIUpdate(as["ai_bottom"], ps[r], b)
            ELSE ps[r]]
    ELSE IF m = "1P"
    THEN [r \in DOMAIN ps |->
            IF as["ai"].paddle = r THEN AIUpdate(as["ai"], ps[r], b) ELSE ps[r]]
    ELSE ps

\* check_paddle_collision against the paddles order[k], order[k+1], ...: the
\* ball left and the number of probes accepted.
RECURSIVE ProbeAll(_, _, _, _)
ProbeAll(b, ps, order, k) ==
    IF k > Len(order) THEN [ball |-> b, n |-> 0]
    ELSE LET r == check_paddle_collision(b, ps[order[k]])
             rest == ProbeAll(r.ball, ps, order, k + 1)
         IN  [ball |-> rest.ball, n |-> rest.n + (IF r.ret THEN 1 ELSE 0)]

\* A tick whose AI decisions come after the ball integration.
TickBallFirst(m, f, ps, as, b) ==
    LET moved == RunAIs(m, MovePaddles(m, f, ps), as, BallUpdate(b))
        probed == ProbeAll(BallUpdate(b), moved, LiveOrder(m, f), 1)
    IN  [paddles |-> moved, ball |-> probed.ball, n |-> probed.n]

\* A tick whose AI decisions come before the paddle integration.
TickAIFirst(m, f, ps, as, b) ==
    LET moved == MovePaddles(m, f, RunAIs(m, ps, as, b))
        probed == ProbeAll(BallUpdate(b), moved, LiveOrder(m, f), 1)
    IN  [paddles |-> moved, ball |-> probed.ball, n |-> probed.n]

\* Game.update up to the out-of-bounds check: paddles integrated, AI
\* decisions taken, ball integrated and probed.
Tick(m, f, ps, as, b) ==
    LET moved == RunAIs(m, MovePaddles(m, f, ps), as, b)
        probed == ProbeAll(BallUpdate(b), moved, LiveOrder(m, f), 1)
    IN  [paddles |-> moved, ball |-> probed.ball, n |-> probed.n]

\* The controllers on which _score_left and _score_right call
\* randomize_strategy.
Redrawn(m) ==
    IF m = "Doubles" THEN {"ai", "ai_bottom"}
    ELSE IF m = "1P" THEN {"ai"}
    ELSE {}

\* The strategies after the randomize_strategy calls of _score_left and
\* _score_right, with the draws s (ai) and sb (ai_bottom).
Randomized(m, as, s, sb) ==
    IF m = "Doubles"
    THEN [as EXCEPT !["ai"] = randomize_strategy(@, s),
                    !["ai_bottom"] = randomize_strategy(@, sb)]
    ELSE IF m = "1P"
    THEN [as EXCEPT !["ai"] = randomize_strategy(@, s)]
    ELSE as

Init ==
    /\ running = TRUE
    /\ crashed = FALSE
    /\ state = "menu"
    /\ mode = "2P"
    /\ formation = FormationOf("2P")
    /\ paddles = InitPaddles("2P")
    /\ ais = InitAIs("2P")
    /\ \E a \in LaunchAngles, d \in LaunchDirections :
          ball = Ball(CourtCenterX, CourtCenterY, a, d)
    /\ score_left = 0
    /\ score_right = 0
    /\ last = [op |-> "init", ret |-> FALSE, why |-> "none", k |-> 0,
               n |-> 0, at |-> ball, drawn |-> {}]
    /\ hits = 0

Alive == running /\ ~crashed

\* The operator acts now: at any time outside play, within the input window
\* during play.
OperatorActs == Alive /\ (state = "playing" => last.k < InputWindow)

\* last after an operation other than a PLAYING update; serve tells that it
\* launched the ball.
Did(op, why, serve) ==
    last' = [op |-> op, ret |-> FALSE, why |-> why,
             k |-> IF serve \/ state' # "playing" THEN 0
                   ELSE Min(last.k + 1, InputWindow),
             n |-> 0, at |-> ball', drawn |-> {}]

\* An AttributeError: nothing was written before it.
Crash(op) ==
    /\ crashed' = TRUE
    /\ UNCHANGED <<state, mode, formation, running, score_left, score_right,
                   paddles, ais, ball, hits>>
    /\ Did(op, "crash", FALSE)

\* The winning branch of _score_left / _score_right: nothing is reset.
GameOver(t, why) ==
    /\ state' = "game_over"
    /\ paddles' = t.paddles
    /\ ball' = t.ball
    /\ ais' = ais
    /\ hits' = hits + t.n
    /\ last' = [op |-> "update", ret |-> t.n > 0, why |-> why, k |-> 0,
                n |-> t.n, at |-> t.ball, drawn |-> {}]

\* A branch that resets on the winning point too.
ServeAlways(t, why, won) ==
    /\ state' = IF won THEN "game_over" ELSE state
    /\ paddles' = reset_positions(mode, formation, t.paddles)
    /\ \E a \in LaunchAngles, d \in LaunchDirections :
          ball' = BallReset(t.ball, CourtCenterX, CourtCenterY, a, d)
    /\ \E s \in AIStrategy, sb \in AIStrategy :
          ais' = Randomized(mode, ais, s, sb)
    /\ hits' = 0
    /\ last' = [op |-> "update", ret |-> t.n > 0, why |-> why, k |-> 0,
                n |-> t.n, at |-> t.ball, drawn |-> Redrawn(mode)]

\* Branches that never call randomize_strategy.
ServeNoRedraw(t, why, won) ==
    IF won THEN GameOver(t, why)
    ELSE /\ state' = state
         /\ paddles' = reset_positions(mode, formation, t.paddles)
         /\ \E a \in LaunchAngles, d \in LaunchDirections :
               ball' = BallReset(t.ball, CourtCenterX, CourtCenterY, a, d)
         /\ ais' = ais
         /\ hits' = 0
         /\ last' = [op |-> "update", ret |-> t.n > 0, why |-> why, k |-> 0,
                     n |-> t.n, at |-> t.ball, drawn |-> {}]

\* The branches of _score_left / _score_right after the increment: the
\* winning point ends the match, any other point resets the positions,
\* relaunches the ball and redraws the strategies.
Serve(t, why, won) ==
    IF won THEN GameOver(t, why)
    ELSE /\ state' = state
         /\ paddles' = reset_positions(mode, formation, t.paddles)
         /\ \E a \in LaunchAngles, d \in LaunchDirections :
               ball' = BallReset(t.ball, CourtCenterX, CourtCenterY, a, d)
         /\ \E s \in AIStrategy, sb \in AIStrategy :
               ais' = Randomized(mode, ais, s, sb)
         /\ hits' = 0
         /\ last' = [op |-> "update", ret |-> t.n > 0, why |-> why, k |-> 0,
                     n |-> t.n, at |-> t.ball,
                     drawn |-> Redrawn(mode)]

\* Game._score_left
ScoreLeft(t) ==
    /\ score_left' = score_left + 1
    /\ UNCHANGED score_right
    /\ Serve(t, "out_right", score_left + 1 >= WINNING_SCORE)

\* A _score_right that credits the left side.
ScoreRightWrongSide(t) ==
    /\ score_left' = score_left + 1
    /\ UNCHANGED score_right
    /\ Serve(t, "out_left", score_left + 1 >= WINNING_SCORE)

\* Game._score_right
ScoreRight(t) ==
    /\ score_right' = score_right + 1
    /\ UNCHANGED score_left
    /\ Serve(t, "out_left", score_right + 1 >= WINNING_SCORE)

\* A tick that scores nothing.
Play(t) ==
    /\ paddles' = t.paddles
    /\ ball' = t.ball
    /\ hits' = hits + t.n
    /\ last' = [op |-> "update", ret |-> t.n > 0, why |-> "none",
                k |-> Min(last.k + 1, InputWindow), n |-> t.n,
                at |-> t.ball, drawn |-> {}]
    /\ UNCHANGED <<state, score_left, score_right, ais>>

\* Game.update, in a match explored up to the given number of points.
UpdateWithin(points) ==
    /\ Alive
    /\ state = "playing" => hits < MaxRally /\ score_left + score_right < points
    /\ IF state # "playing"
       THEN /\ UNCHANGED <<state, mode, formation, running, crashed, score_left,
                           score_right, paddles, ais, ball, hits>>
            /\ Did("update", "idle", FALSE)
       ELSE IF Broken(mode, formation)
       THEN Crash("update")
       ELSE /\ \E t \in {Tick(mode, formation, paddles, ais, ball)} :
                   IF is_out_left(t.ball) THEN ScoreRight(t)
                   ELSE IF is_out_right(t.ball) THEN ScoreLeft(t)
                   ELSE Play(t)
            /\ UNCHANGED <<mode, formation, running, crashed>>

\* A handle_input without the early return for states other than PLAYING.
HandleInputAnyState ==
    /\ OperatorActs
    /\ \E keys \in KeySamples :
          IF Broken(mode, formation)
          THEN Crash("handle_input")
          ELSE /\ paddles' = handle_input(mode, formation, paddles, keys)
               /\ UNCHANGED <<state, mode, formation, running, crashed,
                              score_left, score_right, ais, ball, hits>>
               /\ Did("handle_input", "none", FALSE)

\* Game.handle_input(keys)
HandleInput ==
    /\ OperatorActs
    /\ \E keys \in KeySamples :
          IF state # "playing"
          THEN /\ UNCHANGED <<state, mode, formation, running, crashed,
                              score_left, score_right, paddles, ais, ball, hits>>
               /\ Did("handle_input", "idle", FALSE)
          ELSE IF Broken(mode, formation)
          THEN Crash("handle_input")
          ELSE /\ paddles' = handle_input(mode, formation, paddles, keys)
               /\ UNCHANGED <<state, mode, formation, running, crashed,
                              score_left, score_right, ais, ball, hits>>
               /\ Did("handle_input", "none", FALSE)

\* Game._init_game_objects for mode m with the ball's random draws.
InitGameObjects(m) ==
    /\ formation' = FormationOf(m)
    /\ paddles' = InitPaddles(m)
    /\ ais' = InitAIs(m)
    /\ \E a \in LaunchAngles, d \in LaunchDirections :
          ball' = Ball(CourtCenterX, CourtCenterY, a, d)
    /\ hits' = 0

\* A start_game that zeroes the scores but rebuilds nothing.
StartGameNoRebuild ==
    /\ OperatorActs
    /\ state' = "playing"
    /\ score_left' = 0
    /\ score_right' = 0
    /\ UNCHANGED <<mode, running, crashed, formation, paddles, ais, ball, hits>>
    /\ Did("start_game", "none", TRUE)

\* Game.start_game: the objects are rebuilt, and _reset_positions on fresh
\* objects leaves them where they are and launches the ball again.
StartGame ==
    /\ OperatorActs
    /\ state' = "playing"
    /\ score_left' = 0
    /\ score_right' = 0
    /\ InitGameObjects(mode)
    /\ UNCHANGED <<mode, running, crashed>>
    /\ Did("start_game", "none", TRUE)

\* The mode after m in Game.toggle_mode.
NextMode(m) ==
    IF m = "1P" THEN "2P" ELSE IF m = "2P" THEN "Doubles" ELSE "1P"

\* Game.toggle_mode
ToggleMode ==
    /\ OperatorActs
    /\ mode' = NextMode(mode)
    /\ InitGameObjects(NextMode(mode))
    /\ UNCHANGED <<state, running, crashed, score_left, score_right>>
    /\ Did("toggle_mode", "none", TRUE)

\* Game.set_mode(m)
SetMode ==
    /\ OperatorActs
    /\ \E m \in GameModes : mode' = m
    /\ UNCHANGED <<state, formation, running, crashed, score_left, score_right,
                   paddles, ais, ball, hits>>
    /\ Did("set_mode", "none", FALSE)

\* A return to the menu that keeps the scores.
ReturnToMenuKeepsScores ==
    /\ OperatorActs
    /\ state' = "menu"
    /\ UNCHANGED <<mode, formation, running, crashed, paddles, ais, ball, hits,
                   score_left, score_right>>
    /\ Did("return_to_menu", "none", FALSE)

\* Game.return_to_menu
ReturnToMenu ==
    /\ OperatorActs
    /\ state' = "menu"
    /\ score_left' = 0
    /\ score_right' = 0
    /\ UNCHANGED <<mode, formation, running, crashed, paddles, ais, ball, hits>>
    /\ Did("return_to_menu", "none", FALSE)

\* A quit that also parks the game in the paused state.
QuitPausing ==
    /\ OperatorActs
    /\ running' = FALSE
    /\ state' = "paused"
    /\ UNCHANGED <<mode, formation, crashed, score_left, score_right,
                   paddles, ais, ball, hits>>
    /\ Did("quit", "none", FALSE)

\* Game.quit
Quit ==
    /\ OperatorActs
    /\ running' = FALSE
    /\ UNCHANGED <<state, mode, formation, crashed, score_left, score_right,
                   paddles, ais, ball, hits>>
    /\ Did("quit", "none", FALSE)

\* Game.update
Update == UpdateWithin(MaxPoints)

Next ==
    \/ Update
    \/ HandleInput
    \/ StartGame
    \/ ToggleMode
    \/ SetMode
    \/ ReturnToMenu
    \/ Quit

Spec == Init /\ [][Next]_vars

(***************************************************************************)
(* A whole match as main() runs it in the default mode: RETURN starts the  *)
(* game from the menu, every frame calls handle_input and update, RETURN   *)
(* leaves the game-over screen.                                            *)
(***************************************************************************)
MatchStart == state = "menu" /\ StartGame

MatchInput == HandleInput

MatchUpdate == UpdateWithin(2 * WINNING_SCORE)

MatchReturn == state = "game_over" /\ ReturnToMenu

NextMatch == MatchStart \/ MatchInput \/ MatchUpdate \/ MatchReturn

SpecMatch == Init /\ [][NextMatch]_vars

(***************************************************************************)
(* C7: the out tests are strict.  In every PLAYING tick the ball is out on *)
(* the left iff x + size/2 < 0 and out on the right iff                    *)
(* x - size/2 > WINDOW_WIDTH, never both; a ball whose trailing edge is    *)
(* exactly on x = 0 or on x = WINDOW_WIDTH is not out and no point is      *)
(* scored for it in that tick.                                             *)
(***************************************************************************)
C7_OutIsStrict ==
    [][(last'.op = "update" /\ state = "playing" /\ ~crashed') =>
          LET b == last'.at
              half == BALL_SIZE \div 2
          IN  /\ is_out_left(b) <=> b.x + half < 0
              /\ is_out_right(b) <=> b.x - half > PX(800)
              /\ ~(is_out_left(b) /\ is_out_right(b))
              /\ last'.why = "out_left" <=> b.x + half < 0
              /\ last'.why = "out_right" <=> b.x - half > PX(800)
              /\ (b.x + half = 0 \/ b.x - half = PX(800)) =>
                    /\ score_left' = score_left
                    /\ score_right' = score_right
                    /\ ball' = b
      ]_vars

\* A tick left the ball moving left with its trailing edge exactly on x = 0,
\* and play goes on with the score as it was.
C7_Witness ==
    /\ last.op = "update" /\ last.why = "none"
    /\ state = "playing"
    /\ ball.vx < 0
    /\ ball.x + BALL_SIZE \div 2 = 0
    /\ score_left = 0 /\ score_right = 0

(***************************************************************************)
(* C8: in a PLAYING tick a ball out on the left adds exactly 1 to          *)
(* score_right and leaves score_left, a ball out on the right adds exactly *)
(* 1 to score_left and leaves score_right, a ball that is not out changes  *)
(* neither; one tick changes the total by at most 1 and no score           *)
(* decreases.                                                              *)
(***************************************************************************)
C8_OnePointPerTick ==
    [][(last'.op = "update" /\ state = "playing" /\ ~crashed') =>
          LET x == last'.at.x
              half == BALL_SIZE \div 2
              out_left == x + half < 0
              out_right == x - half > PX(800)
          IN  /\ out_left => /\ score_right' = score_right + 1
                             /\ score_left' = score_left
              /\ out_right => /\ score_left' = score_left + 1
                              /\ score_right' = score_right
              /\ ~(out_left \/ out_right) => /\ score_left' = score_left
                                             /\ score_right' = score_right
              /\ (score_left' + score_right') - (score_left + score_right) <= 1
              /\ score_left' >= score_left
              /\ score_right' >= score_right
      ]_vars

\* A tick in 1P mode saw the ball out on the left and gave the right side
\* its point.
C8_Witness ==
    /\ last.op = "update" /\ last.why = "out_left"
    /\ mode = "1P"
    /\ last.at.x + BALL_SIZE \div 2 < 0
    /\ score_right = 1 /\ score_left = 0

AtStart(p, x, y) ==
    /\ p.x = PX(x) /\ p.y = PX(y)
    /\ p.velocity_x = 0 /\ p.velocity_y = 0

C10_PointResetsPositions ==
    [][(/\ last'.op = "update" /\ state = "playing"
        /\ score_left' + score_right' > score_left + score_right
        /\ score_left' < 10 /\ score_right' < 10) =>
          /\ state' = "playing"
          /\ IF mode = "Doubles"
             THEN /\ AtStart(paddles'["left_top"], 60, 200)
                  /\ AtStart(paddles'["left_bottom"], 60, 320)
                  /\ AtStart(paddles'["right_top"], 730, 200)
                  /\ AtStart(paddles'["right_bottom"], 730, 320)
             ELSE /\ AtStart(paddles'[PaddleLeft(formation)], 50, 250)
                  /\ AtStart(paddles'[PaddleRight(formation)], 740, 250)
          /\ ball'.x = PX(400) /\ ball'.y = PX(300)
          /\ ball'.speed = PX(5)
          /\ ball'.vx # 0
          /\ Abs(ball'.vy) <= Abs(ball'.vx)
          /\ MagnitudeIsSpeed(ball')
      ]_vars

\* A point in DOUBLES mode, scored while an AI paddle was moving, has put
\* the four paddles back and relaunched the ball.
C10_Witness ==
    /\ last.op = "update" /\ last.why \in {"out_left", "out_right"}
    /\ state = "playing"
    /\ mode = "Doubles" /\ formation = "doubles"
    /\ score_left + score_right = 1
    /\ ball.x = CourtCenterX /\ ball.y = CourtCenterY
    /\ paddles["right_top"].x = PX(730)
    /\ paddles["right_top"].velocity_y = 0

(***************************************************************************)
(* A session on the Game object through its public operations start_game,  *)
(* update, handle_input, toggle_mode and return_to_menu, each called in    *)
(* any state.  Matches in the default 2P mode are played to the end; in    *)
(* the modes reached by toggle_mode play is explored up to MaxPoints       *)
(* points.                                                                 *)
(***************************************************************************)
SessionUpdate ==
    UpdateWithin(IF mode = "2P" THEN 2 * WINNING_SCORE ELSE MaxPoints)

NextSession ==
    \/ SessionUpdate
    \/ HandleInput
    \/ StartGame
    \/ ToggleMode
    \/ ReturnToMenu

SpecSession == Init /\ [][NextSession]_vars

(***************************************************************************)
(* C11: in every state reachable through start_game, update, handle_input, *)
(* toggle_mode and return_to_menu, PLAYING implies both scores are below   *)
(* WINNING_SCORE, GAME_OVER implies exactly one score equals WINNING_SCORE *)
(* and the other is smaller, MENU implies both scores are 0, and no score  *)
(* exceeds WINNING_SCORE.                                                  *)
(***************************************************************************)
C11_ScoresFitState ==
    /\ state = "playing" => score_left < 10 /\ score_right < 10
    /\ state = "game_over" =>
          \/ score_left = 10 /\ score_right < 10
          \/ score_right = 10 /\ score_left < 10
    /\ state = "menu" => score_left = 0 /\ score_right = 0
    /\ score_left <= 10 /\ score_right <= 10

\* A match the right side won against a left side that had scored; the mode
\* was then toggled on the game-over screen.
C11_Witness ==
    /\ state = "game_over"
    /\ last.op = "toggle_mode"
    /\ score_right = WINNING_SCORE
    /\ score_left > 0

(***************************************************************************)
(* C12: while the state is not PLAYING, update and handle_input change     *)
(* nothing (ball, paddles, controllers, scores, mode and state keep their  *)
(* values), so GAME_OVER is left only by return_to_menu or start_game.     *)
(***************************************************************************)
C12_IdleOutsidePlay ==
    [][/\ (state # "playing" /\ last'.op \in {"update", "handle_input"}) =>
             /\ ball' = ball
             /\ paddles' = paddles
             /\ ais' = ais
             /\ score_left' = score_left
             /\ score_right' = score_right
             /\ mode' = mode
             /\ state' = state
       /\ (state = "game_over" /\ state' # "game_over") =>
             last'.op \in {"return_to_menu", "start_game"}
      ]_vars

\* handle_input was called on the game-over screen: the ball still lies
\* beyond the left edge and the left paddle still has its velocity.
C12_Witness ==
    /\ state = "game_over"
    /\ last.op = "handle_input"
    /\ ball.x + BALL_SIZE \div 2 < 0
    /\ paddles[PaddleLeft(formation)].velocity_y # 0
    /\ score_right = WINNING_SCORE

(***************************************************************************)
(* C13: start_game, from any state and with any scores, leaves the state   *)
(* PLAYING, both scores 0 and the paddles, controllers and ball of the     *)
(* current mode freshly built at their starting positions; return_to_menu  *)
(* leaves the state MENU and both scores 0.                                *)
(***************************************************************************)
FreshPaddle(p, x, y, height, min_x, max_x) ==
    /\ AtStart(p, x, y)
    /\ p.width = PX(10) /\ p.height = PX(height) /\ p.speed = PX(5)
    /\ p.min_x = PX(min_x) /\ p.max_x = PX(max_x)

FreshAI(ai, paddle, doubles_mode, zone) ==
    /\ ai.paddle = paddle
    /\ ai.doubles_mode = doubles_mode
    /\ ai.zone = zone
    /\ ai.difficulty = "medium"
    /\ ai.strategy = "balanced"

FreshBall(b) ==
    /\ b.x = PX(400) /\ b.y = PX(300)
    /\ b.size = PX(10)
    /\ b.speed = PX(5)
    /\ b.vx # 0
    /\ MagnitudeIsSpeed(b)

C13_StartAndReturn ==
    [][/\ last'.op = "start_game" =>
             /\ state' = "playing"
             /\ score_left' = 0 /\ score_right' = 0
             /\ mode' = mode
             /\ FreshBall(ball')
             /\ IF mode = "Doubles"
                THEN /\ DOMAIN paddles' =
                           {"left_top", "left_bottom", "right_top", "right_bottom"}
                     /\ FreshPaddle(paddles'["left_top"], 60, 200, 80, 0, 400)
                     /\ FreshPaddle(paddles'["left_bottom"], 60, 320, 80, 0, 400)
                     /\ FreshPaddle(paddles'["right_top"], 730, 200, 80, 400, 800)
                     /\ FreshPaddle(paddles'["right_bottom"], 730, 320, 80, 400, 800)
                     /\ DOMAIN ais' = {"ai", "ai_bottom"}
                     /\ FreshAI(ais'["ai"], "right_top", TRUE, "top")
                     /\ FreshAI(ais'["ai_bottom"], "right_bottom", TRUE, "bottom")
                ELSE /\ DOMAIN paddles' = {"left", "right"}
                     /\ FreshPaddle(paddles'["left"], 50, 250, 100, 0, 800)
                     /\ FreshPaddle(paddles'["right"], 740, 250, 100, 0, 800)
                     /\ DOMAIN ais' = {"ai"}
                     /\ FreshAI(ais'["ai"], "right", FALSE, "None")
       /\ last'.op = "return_to_menu" =>
             /\ state' = "menu"
             /\ score_left' = 0 /\ score_right' = 0
      ]_vars

\* start_game was called in DOUBLES mode and built the four paddles.
C13_Witness ==
    /\ last.op = "start_game"
    /\ state = "playing"
    /\ mode = "Doubles"
    /\ paddles["left_bottom"].y = PX(320)
    /\ score_left = 0 /\ score_right = 0

(***************************************************************************)
(* C14: the live paddle/controller set matches the mode's topology (four   *)
(* paddles and two 2D controllers in DOUBLES, two paddles and no doubles   *)
(* paddles otherwise), and no update or handle_input during play reaches   *)
(* for a paddle or controller that does not exist.                         *)
(***************************************************************************)
C14_LiveSetMatchesMode ==
    /\ IF mode = "Doubles"
       THEN /\ DOMAIN paddles =
                  {"left_top", "left_bottom", "right_top", "right_bottom"}
            /\ DOMAIN ais = {"ai", "ai_bottom"}
            /\ \A c \in DOMAIN ais : ais[c].doubles_mode
       ELSE /\ DOMAIN paddles = {"left", "right"}
            /\ DOMAIN ais = {"ai"}
    /\ ~crashed

(***************************************************************************)
(* C15: during play every paddle's velocity has one writer.  handle_input  *)
(* writes the player paddles of the mode and no other (in 1P the left      *)
(* paddle, in 2P both, in DOUBLES the left pair); a scoreless update       *)
(* writes the AI paddles of the mode and no other (in 1P the right paddle, *)
(* in 2P none, in DOUBLES the right pair, each by its own controller).     *)
(***************************************************************************)
PlayerWritten(m, f) ==
    IF m = "Doubles" THEN {"left_top", "left_bottom"}
    ELSE IF m = "2P" THEN {PaddleLeft(f), PaddleRight(f)}
    ELSE {PaddleLeft(f)}

AIWritten(m, f) ==
    IF m = "Doubles" THEN {"right_top", "right_bottom"}
    ELSE IF m = "1P" THEN {PaddleRight(f)}
    ELSE {}

Velocity(p) == <<p.velocity_x, p.velocity_y>>

C16_DecisionActsNextTick ==
    [][(state = "playing" /\ last'.op = "update" /\ last'.why = "none") =>
          /\ \A r \in AIWritten(mode, formation) :
                /\ paddles'[r].x =
                      ClampX(paddles[r], paddles[r].x + paddles[r].velocity_x)
                /\ paddles'[r].y =
                      ClampY(paddles[r], paddles[r].y + paddles[r].velocity_y)
          /\ last'.n = 0 => ball' = BallUpdate(ball)
          /\ last'.at = ball'
          /\ ~is_out_left(ball') /\ ~is_out_right(ball')
      ]_vars

\* 1P: the controller has just chosen to chase the ball, and its paddle
\* still stands where the serve put it.
C16_Witness ==
    /\ state = "playing"
    /\ mode = "1P"
    /\ last.op = "update"
    /\ last.why = "none"
    /\ paddles[PaddleRight(formation)].velocity_y # 0
    /\ paddles[PaddleRight(formation)].y = StandardPaddleY

(***************************************************************************)
(* C17: within one tick every AI controller decides from the pre-tick      *)
(* state: the paddle position and the ball position it reads are those     *)
(* from before any integration of the tick.                                *)
(***************************************************************************)
\* The controller of AI paddle r.
ControllerOf(as, r) == CHOOSE c \in DOMAIN as : as[c].paddle = r

C17_DecidesFromPreTickState ==
    [][(state = "playing" /\ last'.op = "update" /\ last'.why = "none") =>
          \A r \in AIWritten(mode, formation) :
             Velocity(paddles'[r]) =
                Velocity(AIUpdate(ais[ControllerOf(ais, r)], paddles[r], ball))
      ]_vars

\* C17 as amended: every AI controller reads the ball as it was before the
\* tick's ball integration, and its own paddle as it is after the tick's
\* paddle integration.
C17_DecidesAfterPaddleIntegration ==
    [][(state = "playing" /\ last'.op = "update" /\ last'.why = "none") =>
          \A r \in AIWritten(mode, formation) :
             Velocity(paddles'[r]) =
                Velocity(AIUpdate(ais[ControllerOf(ais, r)],
                                  [paddles[r] EXCEPT
                                      !.x = paddles'[r].x, !.y = paddles'[r].y],
                                  ball))
      ]_vars

\* 1P: the controller has stopped its paddle, which has moved down from the
\* serve position; the ball it looked at was inside the dead zone of the
\* paddle's new position and outside that of the position one AI step higher.
C17_Witness ==
    /\ state = "playing"
    /\ mode = "1P"
    /\ last.op = "update"
    /\ last.why = "none"
    /\ last.n = 0
    /\ ball.vy > 0
    /\ paddles[PaddleRight(formation)].velocity_y = 0
    /\ paddles[PaddleRight(formation)].y > StandardPaddleY
    /\ (ball.y - ball.vy) - center_y(paddles[PaddleRight(formation)])
          < AI_REACTION_ZONE
    /\ (ball.y - ball.vy) - center_y(paddles[PaddleRight(formation)])
          >= AI_REACTION_ZONE - AI_SPEED

(***************************************************************************)
(* A DOUBLES rally met by the left players.  The ball is served to the     *)
(* left and flies ApproachTicks updates while the players steer their      *)
(* paddles (5 px a tick on each axis) to a spot and release the keys; from *)
(* there on handle_input and update run as in the game.                    *)
(***************************************************************************)
\* Updates from the serve to the moment the players stand on their spots.
ApproachTicks == 45

\* <<x, y>> (px) of paddle_left_top at that moment.
LeftTopSpots == {<<150, 250>>, <<150, 200>>}

\* <<x, y>> (px) of paddle_left_bottom at that moment.
LeftBottomSpots == {<<165, 315>>, <<165, 310>>, <<60, 320>>}

\* The keys held from then on.
DoublesKeySamples == {{}, {"up"}, {"d", "down"}, {"w", "a", "right"}}

\* n calls of Game.update without a point, from the tick result t (the first
\* half of the calls, then the rest).
RECURSIVE Ticks(_, _, _, _, _)
Ticks(n, m, f, as, t) ==
    IF n = 0 THEN t
    ELSE IF n = 1 THEN Tick(m, f, t.paddles, as, t.ball)
    ELSE CHOOSE r \in {Ticks(n - n \div 2, m, f, as, u) :
                          u \in {Ticks(n \div 2, m, f, as, t)}} : TRUE

InitDoubles ==
    /\ running = TRUE
    /\ crashed = FALSE
    /\ state = "playing"
    /\ mode = "Doubles"
    /\ formation = FormationOf("Doubles")
    /\ ais = InitAIs("Doubles")
    /\ score_left = 0
    /\ score_right = 0
    /\ hits = 0
    /\ \E a \in LaunchAngles :
          \E t \in {Ticks(ApproachTicks, "Doubles", "doubles", InitAIs("Doubles"),
                          [paddles |-> InitPaddles("Doubles"),
                           ball |-> Ball(CourtCenterX, CourtCenterY, a, 0 - 1),
                           n |-> 0])} :
             \E top \in LeftTopSpots, bottom \in LeftBottomSpots :
                /\ paddles = [t.paddles EXCEPT
                                 !["left_top"].x = PX(top[1]),
                                 !["left_top"].y = PX(top[2]),
                                 !["left_bottom"].x = PX(bottom[1]),
                                 !["left_bottom"].y = PX(bottom[2])]
                /\ ball = t.ball
                /\ last = [op |-> "handle_input", ret |-> FALSE, why |-> "none",
                           k |-> 0, n |-> 0, at |-> t.ball,
                           drawn |-> {}]

\* Game.handle_input(keys) with the keys of the left players.
DoublesInput ==
    /\ OperatorActs
    /\ \E keys \in DoublesKeySamples :
          IF state # "playing"
          THEN /\ UNCHANGED <<state, mode, formation, running, crashed,
                              score_left, score_right, paddles, ais, ball, hits>>
               /\ Did("handle_input", "idle", FALSE)
          ELSE IF Broken(mode, formation)
          THEN Crash("handle_input")
          ELSE /\ paddles' = handle_input(mode, formation, paddles, keys)
               /\ UNCHANGED <<state, mode, formation, running, crashed,
                              score_left, score_right, ais, ball, hits>>
               /\ Did("handle_input", "none", FALSE)

NextDoubles ==
    \/ Update
    \/ DoublesInput

SpecDoubles == InitDoubles /\ [][NextDoubles]_vars

(***************************************************************************)
(* C18: in every PLAYING tick of every mode, DOUBLES with overlapping      *)
(* teammates included, at most one collision probe is accepted: vx is      *)
(* flipped at most once and the speed grows by at most one                 *)
(* BALL_SPEED_INCREMENT.                                                   *)
(***************************************************************************)
C18_OneAcceptPerTick ==
    [][(state = "playing" /\ last'.op = "update" /\ last'.why # "crash") =>
          /\ last'.n <= 1
          /\ last'.why = "none" =>
                /\ ball'.speed <= ball.speed + BALL_SPEED_INCREMENT
                /\ (last'.n = 0 /\ ball.vx > 0) => ball'.vx > 0
                /\ (last'.n = 0 /\ ball.vx < 0) => ball'.vx < 0
      ]_vars

(***************************************************************************)
(* The AIPlayer class on its own: one controller of any difficulty, built  *)
(* as the game builds it (single-axis on the right paddle, or 2D on one of *)
(* the right doubles paddles), shown balls at chosen heights, its paddle   *)
(* integrated between decisions, its strategy redrawn at any time.         *)
(***************************************************************************)
Difficulties == {"easy", "medium", "hard"}

\* Paddle.update calls explored per controller.
MaxAIMoves == 2

\* Distances (1/Scale px) between the centre of the ball shown to the
\* controller and the centre of its paddle: the edge of each tier's
\* reaction zone, one unit inside, one unit outside.
BallDistances ==
    {0} \cup {z + e : z \in {PX(15), PX(30), PX(50)}, e \in {0 - 1, 0, 1}}

\* The controllers the harness builds, with mode and paddle as in
\* Game._init_game_objects.
AIBuilds ==
    {[mode |-> "1P", paddle |-> "right", doubles_mode |-> FALSE,
      zone |-> "None", zone_center_y |-> NoZoneCenter],
     [mode |-> "Doubles", paddle |-> "right_top", doubles_mode |-> TRUE,
      zone |-> "top",
      zone_center_y |-> CourtCenterY - FloorDivPx(DOUBLES_PADDLE_SPACING_Y, 2)],
     [mode |-> "Doubles", paddle |-> "right_bottom", doubles_mode |-> TRUE,
      zone |-> "bottom",
      zone_center_y |-> CourtCenterY + FloorDivPx(DOUBLES_PADDLE_SPACING_Y, 2)]}

InitAI ==
    /\ running = TRUE
    /\ crashed = FALSE
    /\ state = "playing"
    /\ score_left = 0
    /\ score_right = 0
    /\ hits = 0
    /\ \E c \in AIBuilds, d \in Difficulties :
          /\ mode = c.mode
          /\ formation = FormationOf(c.mode)
          /\ paddles = InitPaddles(c.mode)
          /\ ais = [k \in {"ai"} |->
                      AIPlayer(c.paddle, d, c.doubles_mode, c.zone,
                               c.zone_center_y)]
    /\ \E d \in LaunchDirections :
          ball = Ball(CourtCenterX, CourtCenterY, <<TrigDen, 0>>, d)
    /\ last = [op |-> "init", ret |-> FALSE, why |-> "none", k |-> 0]

AIFrame ==
    UNCHANGED <<state, mode, formation, running, crashed, score_left,
                score_right>>

\* AIPlayer.update(ball) with the ball at a chosen height.
AIDecide ==
    /\ \E dist \in BallDistances, sign \in {0 - 1, 1} :
          \E y \in {center_y(paddles[ais["ai"].paddle]) + sign * dist} :
             /\ 0 <= y /\ y <= WINDOW_HEIGHT
             /\ ball' = [ball EXCEPT !.y = y]
             /\ paddles' = [paddles EXCEPT ![ais["ai"].paddle] =
                               AIUpdate(ais["ai"], @, [ball EXCEPT !.y = y])]
    /\ last' = [op |-> "ai_update", ret |-> FALSE, why |-> "none", k |-> 0]
    /\ UNCHANGED <<ais, hits>>
    /\ AIFrame

\* Paddle.update of the controller's paddle.
AIPaddleMove ==
    /\ hits < MaxAIMoves
    /\ paddles' = [paddles EXCEPT ![ais["ai"].paddle] = PaddleUpdate(@)]
    /\ hits' = hits + 1
    /\ last' = [op |-> "paddle_update", ret |-> FALSE, why |-> "none", k |-> 0]
    /\ UNCHANGED <<ais, ball>>
    /\ AIFrame

\* AIPlayer.randomize_strategy
AIRandomize ==
    /\ \E s \in AIStrategy : ais' = [ais EXCEPT !["ai"] = randomize_strategy(@, s)]
    /\ last' = [op |-> "randomize_strategy", ret |-> FALSE, why |-> "none",
                k |-> 0]
    /\ UNCHANGED <<paddles, ball, hits>>
    /\ AIFrame

NextAI ==
    \/ AIDecide
    \/ AIPaddleMove
    \/ AIRandomize

SpecAI == InitAI /\ [][NextAI]_vars

(***************************************************************************)
(* C19: the single-axis AIPlayer.update leaves velocity_y = 0 exactly when *)
(* |ball.y - paddle.center_y| < reaction_zone (strictly), -speed when the  *)
(* difference is <= -reaction_zone and +speed when it is >= reaction_zone, *)
(* with the controller's own speed, and never any other value.             *)
(***************************************************************************)
C19_DeadZoneIsStrict ==
    [][(last'.op = "ai_update" /\ ~ais["ai"].doubles_mode) =>
          LET ai == ais["ai"]
              diff == ball'.y - center_y(paddles[ai.paddle])
              vy == paddles'[ai.paddle].velocity_y
          IN  /\ vy = 0 <=> (diff < ai.reaction_zone /\ 0 - diff < ai.reaction_zone)
              /\ diff <= 0 - ai.reaction_zone => vy = 0 - ai.speed
              /\ diff >= ai.reaction_zone => vy = ai.speed
              /\ vy \in {0, ai.speed, 0 - ai.speed}
              /\ ai.speed > 0
      ]_vars

\* An easy controller shown a ball exactly reaction_zone (50 px) below the
\* centre of its paddle chases it at its own speed (3 px a tick).
C19_Witness ==
    /\ last.op = "ai_update"
    /\ ~ais["ai"].doubles_mode
    /\ ais["ai"].difficulty = "easy"
    /\ ball.y - center_y(paddles["right"]) = PX(50)
    /\ paddles["right"].velocity_y = PX(3)

(***************************************************************************)
(* C20: a controller's speed and reaction_zone are those of its            *)
(* difficulty, set at construction: easy (AI_SPEED - 1, AI_REACTION_ZONE + *)
(* 20), medium (AI_SPEED, AI_REACTION_ZONE), hard (AI_SPEED + 1,           *)
(* AI_REACTION_ZONE - 15); nothing changes them afterwards.                *)
(***************************************************************************)
TierOf(ai) ==
    IF ai.difficulty = "easy" THEN <<PX(3), PX(50)>>
    ELSE IF ai.difficulty = "medium" THEN <<PX(4), PX(30)>>
    ELSE IF ai.difficulty = "hard" THEN <<PX(5), PX(15)>>
    ELSE <<0, 0>>

C20_TierIsFixed ==
    [][/\ \A c \in DOMAIN ais : <<ais[c].speed, ais[c].reaction_zone>> = TierOf(ais[c])
       /\ \A c \in DOMAIN ais' :
             /\ <<ais'[c].speed, ais'[c].reaction_zone>> = TierOf(ais'[c])
             /\ ais'[c].difficulty = ais[c].difficulty
             /\ ais'[c].speed = ais[c].speed
             /\ ais'[c].reaction_zone = ais[c].reaction_zone
      ]_vars

\* A hard 2D controller that has decided, moved its paddle and redrawn its
\* strategy still has the speed and reaction zone of its tier.
C20_Witness ==
    /\ last.op = "randomize_strategy"
    /\ ais["ai"].difficulty = "hard"
    /\ ais["ai"].doubles_mode
    /\ ais["ai"].strategy = "aggressive"
    /\ ais["ai"].speed = PX(5)
    /\ ais["ai"].reaction_zone = PX(15)
    /\ hits = MaxAIMoves
    /\ paddles[ais["ai"].paddle].x # StartPos(ais["ai"].paddle)[1]

(***************************************************************************)
(* C21: the clamp of Paddle.update saturates the position and leaves the   *)
(* velocity alone: a step that moves a paddle keeps both velocity          *)
(* components (a saturating update included), and a paddle at y = 0 (or   *)
(* y = WINDOW_HEIGHT - height) whose velocity points out of the court and  *)
(* is not rewritten is at that boundary again after the step.              *)
(***************************************************************************)
C21_ClampKeepsVelocity ==
    [][\A r \in DOMAIN paddles :
          LET p == paddles[r]
              q == paddles'[r]
          IN  /\ (q.y # p.y \/ q.x # p.x) =>
                    q.velocity_y = p.velocity_y /\ q.velocity_x = p.velocity_x
              /\ (p.y = 0 /\ p.velocity_y < 0 /\ q.velocity_y = p.velocity_y) =>
                    q.y = 0
              /\ (p.y = PX(600) - p.height /\ p.velocity_y > 0
                    /\ q.velocity_y = p.velocity_y) =>
                    q.y = PX(600) - p.height
      ]_vars

\* The AI paddle of 1P at the top edge, still driven upwards: its start
\* (y = 250) is not a whole number of 4 px steps from 0, so an update has
\* saturated the position and the velocity has survived it.
C21_Witness ==
    /\ mode = "1P"
    /\ "right" \in DOMAIN paddles
    /\ paddles["right"].y = 0
    /\ paddles["right"].velocity_y = 0 - AI_SPEED

(***************************************************************************)
(* Whole matches as main() runs them in every mode: in the menu SPACE      *)
(* toggles the mode and RETURN starts the game, every frame calls update  *)
(* (no key is held during play, so handle_input finds the paddles stopped  *)
(* and leaves them so), RETURN leaves the game-over screen.  1P matches    *)
(* are played to the end, the others for MaxPoints points.                 *)
(***************************************************************************)
MatchToggle == state = "menu" /\ ToggleMode

SeasonUpdate ==
    UpdateWithin(IF mode = "1P" THEN 2 * WINNING_SCORE ELSE MaxPoints)

NextSeason ==
    \/ MatchStart
    \/ MatchToggle
    \/ SeasonUpdate
    \/ MatchReturn

SpecSeason == Init /\ [][NextSeason]_vars

(***************************************************************************)
(* C22: after every point scored in DOUBLES or 1P mode, that is after      *)
(* every increment of either score, randomize_strategy is called on every  *)
(* active AI controller (both in DOUBLES, the one in 1P), each strategy    *)
(* afterwards being any one of the four; in 2P no strategy is reassigned.  *)
(***************************************************************************)
\* The update step scores a point.
PointScored ==
    /\ last'.op = "update"
    /\ score_left' + score_right' = score_left + score_right + 1

ActiveControllers ==
    IF mode = "Doubles" THEN {"ai", "ai_bottom"}
    ELSE IF mode = "1P" THEN {"ai"}
    ELSE {}

\* The step changes the controllers in last'.drawn in their strategy only,
\* and no other controller at all.
OnlyDrawnChange ==
    \A c \in DOMAIN ais :
       IF c \in last'.drawn
       THEN /\ ais'[c].strategy \in AIStrategy
            /\ ais'[c] = [ais[c] EXCEPT !.strategy = ais'[c].strategy]
       ELSE ais'[c] = ais[c]

C22_RedrawnAfterEveryPoint ==
    [][/\ PointScored => (last'.drawn = ActiveControllers /\ OnlyDrawnChange)
       /\ (last'.op = "update" /\ mode = "2P") => ais' = ais
      ]_vars

\* C22 as amended: the calls are made after every point that does not end
\* the match; the winning point, like every update in 2P, reassigns nothing.
C22_RedrawnAfterEveryServe ==
    [][/\ (PointScored /\ state' = "playing") =>
             (last'.drawn = ActiveControllers /\ OnlyDrawnChange)
       /\ (PointScored /\ state' = "game_over") =>
             (last'.drawn = {} /\ ais' = ais)
       /\ (last'.op = "update" /\ ~PointScored) =>
             (last'.drawn = {} /\ ais' = ais)
       /\ (last'.op = "update" /\ mode = "2P") => ais' = ais
      ]_vars

\* 1P, the ninth point of the right side: the controller has been given a
\* strategy other than the one it was built with.
C22_Witness ==
    /\ state = "playing"
    /\ mode = "1P"
    /\ last.op = "update"
    /\ last.why = "out_left"
    /\ last.drawn = {"ai"}
    /\ score_right = WINNING_SCORE - 1
    /\ ais["ai"].strategy = "aggressive"

(***************************************************************************)
(* The 2D controllers on their own: a controller of any difficulty built   *)
(* for one of the right doubles paddles, shown a ball (moving left, right *)
(* or not at all) at chosen heights, its paddle integrated between         *)
(* decisions, its strategy redrawn at any time.                            *)
(***************************************************************************)
\* Ball heights (1/Scale px) 75 and 150 px from the zone centres the game
\* assigns (250 and 350), with their neighbours, and the court's edges.
ZoneEdgeYs ==
    {0, WINDOW_HEIGHT}
       \cup {PX(h) + e : h \in {200, 275, 325, 400}, e \in {0 - 1, 0, 1}}

\* Horizontal velocities of the ball shown to the controller.
ShownVxs == {0 - BALL_INITIAL_SPEED, 0, BALL_INITIAL_SPEED}

InitZone ==
    /\ running = TRUE
    /\ crashed = FALSE
    /\ state = "playing"
    /\ score_left = 0
    /\ score_right = 0
    /\ hits = 0
    /\ mode = "Doubles"
    /\ formation = FormationOf("Doubles")
    /\ paddles = InitPaddles("Doubles")
    /\ \E c \in AIBuilds, d \in Difficulties :
          /\ c.doubles_mode
          /\ ais = [k \in {"ai"} |->
                      AIPlayer(c.paddle, d, c.doubles_mode, c.zone,
                               c.zone_center_y)]
    /\ \E vx \in ShownVxs :
          ball = [Ball(CourtCenterX, CourtCenterY, <<TrigDen, 0>>, 1)
                     EXCEPT !.vx = vx]
    /\ last = [op |-> "init", ret |-> FALSE, why |-> "none", k |-> 0]

\* AIPlayer.update(ball) with the ball at a chosen height of the court.
AIDecideAt ==
    /\ \E y \in ZoneEdgeYs :
          /\ ball' = [ball EXCEPT !.y = y]
          /\ paddles' = [paddles EXCEPT ![ais["ai"].paddle] =
                            AIUpdate(ais["ai"], @, [ball EXCEPT !.y = y])]
    /\ last' = [op |-> "ai_update", ret |-> FALSE, why |-> "none", k |-> 0]
    /\ UNCHANGED <<ais, hits>>
    /\ AIFrame

NextZone ==
    \/ AIDecideAt
    \/ AIPaddleMove
    \/ AIRandomize

SpecZone == InitZone /\ [][NextZone]_vars

(***************************************************************************)
(* C23: in 2D mode the zone test uses a half-height of 150: the controller *)
(* of the top zone takes ball.y as its y target iff                        *)
(* ball.y < zone_center_y + 150, the controller of the bottom zone iff     *)
(* ball.y > zone_center_y - 150, and the y target is zone_center_y in      *)
(* every other case.  The target shows in the velocity chosen: 0 within    *)
(* reaction_zone of the paddle centre, else -speed or +speed towards it.   *)
(***************************************************************************)
\* The y velocity a 2D decision leaves is the one that chases the target of
\* a zone test with the given half-height.
ZoneLaw(half) ==
    (last'.op = "ai_update" /\ ais["ai"].doubles_mode) =>
       LET ai == ais["ai"]
           y == ball'.y
           in_zone == \/ ai.zone = "top" /\ y < ai.zone_center_y + half
                      \/ ai.zone = "bottom" /\ y > ai.zone_center_y - half
           target == IF in_zone THEN y ELSE ai.zone_center_y
           d == target - center_y(paddles[ai.paddle])
           vy == paddles'[ai.paddle].velocity_y
       IN  /\ (d < ai.reaction_zone /\ 0 - d < ai.reaction_zone) => vy = 0
           /\ d <= 0 - ai.reaction_zone => vy = 0 - ai.speed
           /\ d >= ai.reaction_zone => vy = ai.speed

C23_ZoneHalfHeight150 == [][ZoneLaw(PX(150))]_vars

\* C23 as amended: the zone is 150 high and the test uses its half, 75.
C23_ZoneHalfHeight75 == [][ZoneLaw(PX(75))]_vars

\* The controller of the top zone (centre 250) is shown a ball at y = 325,
\* the first height outside its zone, 85 px below the centre of its paddle,
\* and stops: its target is the zone centre, 10 px away.
C23_Witness ==
    /\ last.op = "ai_update"
    /\ ais["ai"].doubles_mode
    /\ ais["ai"].zone = "top"
    /\ ball.y = PX(325)
    /\ center_y(paddles["right_top"]) = PX(240)
    /\ paddles["right_top"].velocity_y = 0


(***************************************************************************)
(* The x axis of the 2D controllers on their own: a controller of any      *)
(* difficulty built for one of the right doubles paddles, the paddle       *)
(* somewhere in its half, shown balls at several x moving left, right or   *)
(* not at all, its paddle integrated between decisions, its strategy       *)
(* redrawn at any time.                                                    *)
(***************************************************************************)
\* The x targets _calculate_target_x returns on the right side, in px.
LaneTargets == {480, 500, 600, 650, 730}

\* Paddle positions (whole px, as the integer speeds leave them) whose
\* centre is on the edge of a dead zone of width r around an x target or
\* 1 px inside it, and one between the two ball_reactive targets.
LaneXs(r) ==
    {x \in {PX(575) - PADDLE_WIDTH \div 2}
             \cup {PX(t) + s * (r - e) - PADDLE_WIDTH \div 2 :
                     t \in LaneTargets, s \in {0 - 1, 1}, e \in {0, PX(1)}} :
        x > FloorDivPx(WINDOW_WIDTH, 2) /\ x <= WINDOW_WIDTH - PADDLE_WIDTH}

\* Ball positions along the court shown to the controller.
LaneBallXs == {PX(200), CourtCenterX, PX(600)}

InitLane ==
    /\ running = TRUE
    /\ crashed = FALSE
    /\ state = "playing"
    /\ score_left = 0
    /\ score_right = 0
    /\ hits = 0
    /\ mode = "Doubles"
    /\ formation = FormationOf("Doubles")
    /\ \E c \in AIBuilds, d \in Difficulties :
          /\ c.doubles_mode
          /\ ais = [k \in {"ai"} |->
                      AIPlayer(c.paddle, d, c.doubles_mode, c.zone,
                               c.zone_center_y)]
          /\ \E x \in LaneXs(ais["ai"].reaction_zone) :
                paddles = [InitPaddles("Doubles") EXCEPT ![c.paddle].x = x]
    /\ ball = Ball(CourtCenterX, CourtCenterY, <<TrigDen, 0>>, 1)
    /\ last = [op |-> "init", ret |-> FALSE, why |-> "none", k |-> 0]

\* AIPlayer.update(ball) with the ball at a chosen x and horizontal
\* velocity.
AILook ==
    /\ \E bx \in LaneBallXs, vx \in ShownVxs :
          \E b \in {[ball EXCEPT !.x = bx, !.vx = vx]} :
             /\ ball' = b
             /\ paddles' = [paddles EXCEPT ![ais["ai"].paddle] =
                               AIUpdate(ais["ai"], @, b)]
    /\ last' = [op |-> "ai_update", ret |-> FALSE, why |-> "none", k |-> 0]
    /\ UNCHANGED <<ais, hits>>
    /\ AIFrame

NextLane ==
    \/ AILook
    \/ AIPaddleMove
    \/ AIRandomize

SpecLane == InitLane /\ [][NextLane]_vars

(***************************************************************************)
(* C24: in 2D mode the x target depends only on the strategy, the paddle's *)
(* side and the sign of ball.vx: defensive (stay-back) gives the own court *)
(* edge offset by DOUBLES_PADDLE_OFFSET_X plus PADDLE_WIDTH, balanced      *)
(* (hold-mid-lane) the centre of the own half, aggressive (push-forward)   *)
(* the centreline offset by AI_AGGRESSIVE_OFFSET toward the own side,      *)
(* ball_reactive the centreline offset by AI_BALL_REACTIVE_FORWARD_OFFSET  *)
(* when the ball moves toward the paddle's side and the own edge offset by *)
(* AI_BALL_REACTIVE_BACK_OFFSET otherwise (vx = 0 included); the x         *)
(* velocity is 0 iff |target - paddle.center_x| < reaction_zone, else      *)
(* -speed or +speed toward the target; ball.x is never the target.         *)
(***************************************************************************)
\* The x target as stated, for a paddle on the right (side = 1) or on the
\* left (side = -1) of the centreline; the ball moves toward the paddle's
\* side when its vx has the sign of the side.
StatedTargetX(strategy, side, vx) ==
    LET centreline == FloorDivPx(WINDOW_WIDTH, 2)
        edge == IF side = 1 THEN WINDOW_WIDTH ELSE 0
    IN  CASE strategy = "defensive" ->
                edge - side * (DOUBLES_PADDLE_OFFSET_X + PADDLE_WIDTH)
          [] strategy = "balanced" -> FloorDivPx(centreline + edge, 2)
          [] strategy = "aggressive" -> centreline + side * AI_AGGRESSIVE_OFFSET
          [] strategy = "ball_reactive" ->
                IF vx * side > 0
                THEN centreline + side * AI_BALL_REACTIVE_FORWARD_OFFSET
                ELSE edge - side * AI_BALL_REACTIVE_BACK_OFFSET

C24_TargetXByStrategy ==
    [][(last'.op = "ai_update" /\ ais["ai"].doubles_mode) =>
          LET ai == ais["ai"]
              p == paddles[ai.paddle]
              side == IF p.x > FloorDivPx(WINDOW_WIDTH, 2) THEN 1 ELSE 0 - 1
              d == StatedTargetX(ai.strategy, side, ball'.vx) - center_x(p)
              vx == paddles'[ai.paddle].velocity_x
          IN  /\ ai.strategy \in AIStrategy
              /\ (d < ai.reaction_zone /\ 0 - d < ai.reaction_zone) <=> vx = 0
              /\ d <= 0 - ai.reaction_zone => vx = 0 - ai.speed
              /\ d >= ai.reaction_zone => vx = ai.speed
      ]_vars


(***************************************************************************)
(* C25: on every accepted collision relative_hit =                         *)
(* (ball.y - paddle.center_y) / (paddle.height / 2) lies in [-1, 1], for   *)
(* every ball and paddle whose bounding boxes intersect (paddles 100 and   *)
(* 80 high, ball size 10).                                                 *)
(***************************************************************************)
C25_RelativeHitInUnitRange ==
    [][(last'.op = "collide" /\ last'.ret) =>
          LET p == ProbedNext
          IN  /\ 2 * (ball.y - center_y(p)) <= p.height
              /\ 2 * (center_y(p) - ball.y) <= p.height
      ]_vars


(***************************************************************************)
(* The Ball class on its own, with the caller free to repeat               *)
(* check_paddle_collision against the paddle that has just been struck.    *)
(***************************************************************************)
\* Ball.check_paddle_collision once more against the paddle whose probe
\* has just been accepted.
BallReprobe ==
    /\ last.op = "collide" /\ last.ret
    /\ \E r \in {check_paddle_collision(ball,
                                        paddles[ProbeOrder(formation)[last.k]])} :
          /\ ball' = r.ball
          /\ last' = [op |-> "collide", ret |-> r.ret, why |-> r.why,
                      k |-> last.k]
          /\ hits' = IF r.ret THEN hits + 1 ELSE hits
    /\ BallFrame

NextReprobe ==
    \/ BallStep
    \/ BallProbe
    \/ BallReprobe
    \/ BallRelaunch

SpecReprobe == InitBall /\ [][NextReprobe]_vars

(***************************************************************************)
(* C26: an accepted collision repositions the ball just outside the struck *)
(* face (x = paddle.x - size/2 - 1 when hit from the left,                 *)
(* x = paddle.x + paddle.width + size/2 + 1 when hit from the right), so   *)
(* its bounding box no longer intersects the paddle's, and an immediately  *)
(* repeated check_paddle_collision against the same unmoved paddle returns *)
(* False and changes nothing.                                              *)
(***************************************************************************)
C26_RepositionedOutside ==
    [][/\ (last'.op = "collide" /\ last'.ret) =>
             LET p == ProbedNext
             IN  /\ ball.x < center_x(p) =>
                       ball'.x = p.x - ball.size \div 2 - PX(1)
                 /\ ball.x >= center_x(p) =>
                       ball'.x = p.x + p.width + ball.size \div 2 + PX(1)
                 /\ ~colliderect(BallRect(ball'), PaddleRect(p))
       /\ (last.op = "collide" /\ last.ret /\ last'.op = "collide"
             /\ last'.k = last.k) =>
             /\ ~last'.ret
             /\ ball' = ball
      ]_vars

\* The repeated probe of a paddle that has just been struck from the right
\* has returned False.
C26_Witness ==
    /\ last.op = "collide" /\ ~last.ret /\ last.why = "miss"
    /\ hits >= 1
    /\ ball.x = paddles[ProbeOrder(formation)[last.k]].x
                   + paddles[ProbeOrder(formation)[last.k]].width
                   + ball.size \div 2 + PX(1)


(***************************************************************************)
(* The single-axis controller and its paddle tick by tick, as Game.update  *)
(* drives them in 1P (Paddle.update, then AIPlayer.update), in front of a  *)
(* ball that keeps its height until it is put at another one.              *)
(***************************************************************************)
\* Heights (1/Scale px) at which the ball is held: the lowest and highest
\* a ball centre can have, and whole and fractional heights between.
StillYs ==
    {PX(5), PX(123) + 45, PX(300), PX(329) + 99, PX(350), PX(477) + 50,
     PX(595)}

InitStill ==
    /\ running = TRUE
    /\ crashed = FALSE
    /\ state = "playing"
    /\ score_left = 0
    /\ score_right = 0
    /\ hits = 0
    /\ mode = "1P"
    /\ formation = FormationOf("1P")
    /\ paddles = InitPaddles("1P")
    /\ \E c \in AIBuilds, d \in Difficulties :
          /\ c.mode = "1P"
          /\ ais = [k \in {"ai"} |->
                      AIPlayer(c.paddle, d, c.doubles_mode, c.zone,
                               c.zone_center_y)]
    /\ \E y \in StillYs :
          ball = [Ball(CourtCenterX, CourtCenterY, <<TrigDen, 0>>, 1)
                     EXCEPT !.y = y]
    /\ last = [op |-> "init", ret |-> FALSE, why |-> "none", k |-> 0]

\* The paddle and controller part of one Game.update in 1P; the ball keeps
\* its height.
StillTick ==
    /\ paddles' = RunAIs(mode, MovePaddles(mode, formation, paddles), ais,
                         ball)
    /\ last' = [op |-> "tick", ret |-> FALSE, why |-> "none", k |-> 0]
    /\ UNCHANGED <<ais, ball, hits>>
    /\ AIFrame

\* The ball is put at another height.
StillShift ==
    /\ \E y \in StillYs :
          /\ y # ball.y
          /\ ball' = [ball EXCEPT !.y = y]
    /\ last' = [op |-> "shift", ret |-> FALSE, why |-> "none", k |-> 0]
    /\ UNCHANGED <<ais, paddles, hits>>
    /\ AIFrame

NextStill ==
    \/ StillTick
    \/ StillShift

SpecStill == InitStill /\ [][NextStill]_vars

(***************************************************************************)
(* C27: the dead zone prevents jitter: in 1P, while the ball's y stays     *)
(* fixed, over consecutive ticks the AI paddle's y velocity never switches *)
(* directly between -speed and +speed, and once it has become 0 it stays   *)
(* 0, for every difficulty (speed < 2 * reaction_zone).                    *)
(***************************************************************************)
C27_NoJitter ==
    [][(last.op = "tick" /\ last'.op = "tick") =>
          LET ai == ais["ai"]
              v == paddles[ai.paddle].velocity_y
              w == paddles'[ai.paddle].velocity_y
          IN  /\ ai.speed < 2 * ai.reaction_zone
              /\ ~(v = 0 - ai.speed /\ w = ai.speed)
              /\ ~(v = ai.speed /\ w = 0 - ai.speed)
              /\ v = 0 => w = 0
      ]_vars

\* The hard controller has chased a ball held at y = 123.45 up from the
\* centre of the court and has stopped inside its dead zone, at the first
\* paddle centre less than 15 px from the ball.
C27_Witness ==
    /\ last.op = "tick"
    /\ ais["ai"].difficulty = "hard"
    /\ ball.y = PX(123) + 45
    /\ paddles["right"].velocity_y = 0
    /\ center_y(paddles["right"]) = PX(135)


(***************************************************************************)
(* A 2D controller and its paddle from the doubles start positions, tick   *)
(* by tick as Game.update drives them (Paddle.update, then                 *)
(* AIPlayer.update), for as many ticks as it takes, in front of a ball at  *)
(* the height of the court centre that flies left, right or not at all;    *)
(* points put the paddles back and redraw the strategy.                    *)
(***************************************************************************)
InitForward ==
    /\ running = TRUE
    /\ crashed = FALSE
    /\ state = "playing"
    /\ score_left = 0
    /\ score_right = 0
    /\ hits = 0
    /\ mode = "Doubles"
    /\ formation = FormationOf("Doubles")
    /\ paddles = InitPaddles("Doubles")
    /\ \E c \in AIBuilds, d \in Difficulties :
          /\ c.doubles_mode
          /\ ais = [k \in {"ai"} |->
                      AIPlayer(c.paddle, d, c.doubles_mode, c.zone,
                               c.zone_center_y)]
    /\ ball = Ball(CourtCenterX, CourtCenterY, <<TrigDen, 0>>, 1)
    /\ last = [op |-> "init", ret |-> FALSE, why |-> "none", k |-> 0]

\* The part of one Game.update in DOUBLES that concerns the controller's
\* paddle, with the ball flying as drawn.
ForwardTick ==
    /\ \E vx \in ShownVxs :
          \E b \in {[ball EXCEPT !.vx = vx]} :
             /\ ball' = b
             /\ paddles' = [paddles EXCEPT ![ais["ai"].paddle] =
                               AIUpdate(ais["ai"], PaddleUpdate(@), b)]
    /\ last' = [op |-> "tick", ret |-> FALSE, why |-> "none", k |-> 0]
    /\ UNCHANGED <<ais, hits>>
    /\ AIFrame

\* A point that does not end the match: _reset_positions, then
\* randomize_strategy.
ForwardPoint ==
    /\ paddles' = reset_positions(mode, formation, paddles)
    /\ \E s \in AIStrategy : ais' = [ais EXCEPT !["ai"] = randomize_strategy(@, s)]
    /\ last' = [op |-> "point", ret |-> FALSE, why |-> "none", k |-> 0]
    /\ UNCHANGED <<ball, hits>>
    /\ AIFrame

NextForward ==
    \/ ForwardTick
    \/ AIRandomize
    \/ ForwardPoint

SpecForward == InitForward /\ [][NextForward]_vars

(***************************************************************************)
(* C28: in DOUBLES an AI-driven right-team paddle never reaches the        *)
(* centreline: after any sequence of ticks, points and strategy changes    *)
(* from start_game its x stays strictly greater than WINDOW_WIDTH / 2, so  *)
(* the side test paddle.x > WINDOW_WIDTH / 2 classifies it as a right-side *)
(* paddle and its x target is never one of the left half.                  *)
(***************************************************************************)
C28_RightOfCentreline ==
    mode = "Doubles" =>
       \A k \in DOMAIN ais :
          LET p == paddles[ais[k].paddle]
          IN  /\ p.x > FloorDivPx(WINDOW_WIDTH, 2)
              /\ calculate_target_x(ais[k], p, ball) > FloorDivPx(WINDOW_WIDTH, 2)

\* The hard controller, pushing forward, has come to rest at the paddle
\* position nearest the net that any controller reaches.
C28_Witness ==
    /\ last.op = "tick"
    /\ ais["ai"].difficulty = "hard"
    /\ ais["ai"].strategy = "aggressive"
    /\ paddles[ais["ai"].paddle].x = PX(485)
    /\ paddles[ais["ai"].paddle].velocity_x = 0


(***************************************************************************)
(* The two controllers of a doubles game side by side: the paddle and      *)
(* controller part of Game.update, with the ball at a height drawn over    *)
(* the whole court, and points that put the paddles back and redraw both   *)
(* strategies.  hits counts the ticks.                                     *)
(***************************************************************************)
\* Ball heights (1/Scale px) from the top of the court to its bottom, with
\* the edges of both zones (275 and 325) and their neighbours.
CoverYs ==
    {0, PX(5), PX(150), PX(300), PX(450), PX(595), WINDOW_HEIGHT}
       \cup {PX(h) + e : h \in {275, 325}, e \in {0 - 1, 0, 1}}

InitCover ==
    /\ running = TRUE
    /\ crashed = FALSE
    /\ state = "playing"
    /\ score_left = 0
    /\ score_right = 0
    /\ hits = 0
    /\ mode = "Doubles"
    /\ formation = FormationOf("Doubles")
    /\ paddles = InitPaddles("Doubles")
    /\ ais = InitAIs("Doubles")
    /\ \E d \in LaunchDirections :
          ball = Ball(CourtCenterX, CourtCenterY, <<TrigDen, 0>>, d)
    /\ last = [op |-> "init", ret |-> FALSE, why |-> "none", k |-> 0]

\* Paddle.update on the four paddles, then AIPlayer.update of both
\* controllers.
CoverTick ==
    /\ hits < MaxAIMoves
    /\ \E y \in CoverYs :
          \E b \in {[ball EXCEPT !.y = y]} :
             /\ ball' = b
             /\ paddles' = RunAIs(mode, MovePaddles(mode, formation, paddles),
                                  ais, b)
    /\ hits' = hits + 1
    /\ last' = [op |-> "tick", ret |-> FALSE, why |-> "none", k |-> 0]
    /\ UNCHANGED ais
    /\ AIFrame

\* A point that does not end the match: _reset_positions, then
\* randomize_strategy on both controllers.
CoverPoint ==
    /\ paddles' = reset_positions(mode, formation, paddles)
    /\ \E s \in AIStrategy, sb \in AIStrategy :
          ais' = Randomized(mode, ais, s, sb)
    /\ last' = [op |-> "point", ret |-> FALSE, why |-> "none", k |-> 0]
    /\ UNCHANGED <<ball, hits>>
    /\ AIFrame

NextCover ==
    \/ CoverTick
    \/ CoverPoint

SpecCover == InitCover /\ [][NextCover]_vars

(***************************************************************************)
(* C29: with the zone centres the game assigns (250 and 350) the two zones *)
(* cover the whole court: for every ball y in [0, WINDOW_HEIGHT] at least  *)
(* one of the two controllers treats the ball as in its zone, that is,     *)
(* takes ball.y as its y target and chases it.                             *)
(***************************************************************************)
C29_ZonesCoverCourt ==
    [][(last'.op = "tick" /\ 0 <= ball'.y /\ ball'.y <= WINDOW_HEIGHT) =>
          \E k \in DOMAIN ais :
             LET ai == ais[k]
                 d == ball'.y - center_y(PaddleUpdate(paddles[ai.paddle]))
                 vy == paddles'[ai.paddle].velocity_y
             IN  /\ TargetY(ai, ball') = ball'.y
                 /\ (d < ai.reaction_zone /\ 0 - d < ai.reaction_zone) => vy = 0
                 /\ d <= 0 - ai.reaction_zone => vy = 0 - ai.speed
                 /\ d >= ai.reaction_zone => vy = ai.speed
      ]_vars

\* A ball at y = 325, the first height below the top zone: the top
\* controller holds its paddle at its zone centre, the bottom controller
\* alone takes the ball and moves up to it.
C29_Witness ==
    /\ last.op = "tick"
    /\ ball.y = PX(325)
    /\ TargetY(ais["ai"], ball) = ais["ai"].zone_center_y
    /\ TargetY(ais["ai_bottom"], ball) = ball.y
    /\ paddles["right_top"].velocity_y = 0
    /\ paddles["right_bottom"].velocity_y = 0 - AI_SPEED


(***************************************************************************)
(* The whole Game API around matches played to the end: every operation    *)
(* may be called in the menu, on the game-over screen and right after      *)
(* start_game; from then on the match runs by update alone, a 1P match     *)
(* until it is won.                                                        *)
(***************************************************************************)
\* During play the operator acts only on the game start_game has just set
\* up.
AtKickoff == state = "playing" => last.op = "start_game"

StatesInput == AtKickoff /\ HandleInput

StatesStart == AtKickoff /\ StartGame

StatesToggle == AtKickoff /\ ToggleMode

StatesSetMode == AtKickoff /\ SetMode

StatesReturn == AtKickoff /\ ReturnToMenu

StatesQuit == AtKickoff /\ Quit

NextStates ==
    \/ SeasonUpdate
    \/ StatesInput
    \/ StatesStart
    \/ StatesToggle
    \/ StatesSetMode
    \/ StatesReturn
    \/ StatesQuit

SpecStates == Init /\ [][NextStates]_vars

(***************************************************************************)
(* C30: the PAUSED state is unreachable from the initial MENU state under  *)
(* start_game, update, handle_input, set_mode, toggle_mode, return_to_menu *)
(* and quit; the only transitions are any state -> PLAYING (start_game),   *)
(* PLAYING -> GAME_OVER (a winning point in update) and any state -> MENU  *)
(* (return_to_menu).                                                       *)
(***************************************************************************)
C30_PausedUnreachable ==
    [][/\ state # "paused" /\ state' # "paused"
       /\ state' # state =>
             \/ state' = "playing" /\ last'.op = "start_game"
             \/ /\ state = "playing" /\ state' = "game_over"
                /\ PointScored
                /\ score_left' >= WINNING_SCORE \/ score_right' >= WINNING_SCORE
             \/ state' = "menu" /\ last'.op = "return_to_menu"
       /\ last'.op = "start_game" => state' = "playing"
       /\ last'.op = "return_to_menu" => state' = "menu"
       /\ last'.op \in {"handle_input", "set_mode", "toggle_mode", "quit"} =>
             state' = state
      ]_vars

\* A 1P match has been lost to the controller and the game has been quit on
\* the game-over screen, where it stays.
C30_Witness ==
    /\ state = "game_over"
    /\ last.op = "quit"
    /\ ~running
    /\ score_right = WINNING_SCORE

=============================================================================
